---- MODULE Spec2Model ----
(***************************************************************************)
(* Session controller of forest-runner (src/src/components/RunnerScene.jsx, *)
(* second, complete revision of the component, lines 452-1298).             *)
(*                                                                          *)
(* Units: time in ms (Date.now()), depth z in 1/10000 of a scene unit, so   *)
(* that gameSpeed * 0.4 stays an integer for every speed the difficulty     *)
(* timer can produce.  React state and the refs that mirror it              *)
(* (gameSpeedRef, gameOverRef, heartsRef, playerStateRef, isPausedRef) are  *)
(* one variable each: every action is a handler together with the commit    *)
(* (re-render and effects) that its state updates cause.                    *)
(***************************************************************************)
EXTENDS Integers, Sequences, FiniteSets, TLC

\* ------------------------------------------------------------- constants
BASE_LOG_SPEED == 1200
MIN_LOG_SPACING == 1800
MAX_LOG_SPACING == 3000
FIRST_LOG_DELAY == 500
LOG_DESPAWN_DISTANCE == 150000
MIN_LOG_DISTANCE_Z == 80000
SPAWN_Z == -250000
PLAYER_Z == 260000
Z_OVERLAP_MIN == 245000
Z_OVERLAP_MAX == 270000
Y_CLEARANCE == 13000
SCORE_Z == 265000
MAX_HEARTS == 3
INVINCIBILITY_MS == 750
TUMBLE_DURATION == 1500
TUMBLE_CHECK_MS == 50
TICK_MS == 16
COUNTDOWN_STEP_MS == 1000
COUNTDOWN_START == 3
DIFFICULTY_MS == 10000
SPEED_INCREMENT == 10
GROUND_Y == 5000
\* Player.jsx: JUMP_FORCE, and GRAVITY * 0.016 applied per frame
JUMP_FORCE == 3000
GRAVITY_STEP == 128
\* the height three frames into a jump, the first one above Y_CLEARANCE
AIRBORNE_Y == GROUND_Y + 3 * JUMP_FORCE - (1 + 2 + 3) * GRAVITY_STEP

\* the period of the animation frames the physics of Player.jsx assumes
FRAME_MS == 16

\* null of a timestamp ref / "no timer scheduled"
Null == -1

\* jump detection: image heights in 1/10000 pixel, keypoint scores in percent
PIXEL == 10000
JUMP_MARGIN == 450000
MIN_HIP_MOVEMENT == 150000
MAX_HIP_DIFF == 500000
MIN_HIP_SCORE == 40
\* the baseline RunnerScene receives in debug mode
DEBUG_BASELINE == 3000000
\* CalibrationPanel.jsx: the countdown before the standing phase, the least and
\* the greatest number of baseline samples, the stability threshold (pixels),
\* the least amplitude recorded (pixels) and the default amplitude (pixels)
CALIBRATION_COUNTDOWN == 3
MIN_BASELINE_SAMPLES == 15
MAX_BASELINE_SAMPLES == 20
STABLE_STD_DEV == 5
MIN_JUMP_HEIGHT == 20
DEFAULT_JUMP_HEIGHT == 30
\* the standard deviation is compared in units of 1/10 pixel
DECIPIXEL == 1000

\* ------------------------------------------------------------- bounds
\* the clock stops at MaxTime: no timer fires later
MaxTime == 16000
\* the host may deliver the 16 ms interval late by this many whole periods
MaxTickLag == 1
\* the player leaves or reaches the ground at most MaxMoves times in a session
MaxMoves == 2
\* the user presses Pause/Resume, switches tabs or toggles the camera at most
\* MaxClicks times, between InputFrom and InputTo (an interval around the first
\* collision of a run), and leaves the game paused without a countdown for at
\* most MaxIdle timer callbacks
MaxClicks == 3
InputFrom == 7100
InputTo == 7200
MaxIdle == 1

TickPeriods == {TICK_MS * k : k \in 1..(1 + MaxTickLag)}
\* values of MIN_LOG_SPACING + Math.random() * (MAX_LOG_SPACING - MIN_LOG_SPACING)
\* that are drawn: the least one, which packs the spawns as densely as the
\* code allows
SpawnGaps == {g \in {MIN_LOG_SPACING} : g >= MIN_LOG_SPACING /\ g < MAX_LOG_SPACING}
\* heights the Player component reports: grounded, or above the log
PlayerYs == {GROUND_Y, AIRBORNE_Y}
\* the Up Arrow key goes down or up at most MaxKeys times, between KeyFrom and
\* KeyTo (the end of the second tumble of a player who did not jump before) or
\* in an interval of the same length from KeyAgain on (before the collision
\* that takes that player's last life); the animation frames fall FrameOffset
\* after the ticks
MaxKeys == 3
KeyFrom == 11280
KeyTo == 11310
KeyAgain == 12480
FrameOffset == 8
\* the pose detector delivers at most MaxObs results
MaxObs == 4
\* calibration: Start Calibration is clicked at most MaxStarts times; the
\* detector delivers at most PreObs results before the standing phase and at
\* most MaxJumpObs in the jumping phase; in the standing phase at most
\* MaxDisturbances results are other than the regular ones
MaxStarts == 2
PreObs == 2
MaxDisturbances == 1
MaxJumpObs == 5
\* calibrated baselines: none, or a standing hip height of 300 pixels
Baselines == {Null, 300 * PIXEL}
\* results of the pose detector: nobody in the picture, or the two hip
\* keypoints (heights in pixels, scores in percent; a keypoint that is missing
\* or carries no score has the score 0)
NoPose == [present |-> FALSE, leftY |-> 0, rightY |-> 0, leftScore |-> 0, rightScore |-> 0]
Hips(l, r, ls, rs) ==
    [present |-> TRUE, leftY |-> l * PIXEL, rightY |-> r * PIXEL,
     leftScore |-> ls, rightScore |-> rs]
PoseResults ==
    {NoPose, Hips(250, 250, 90, 90), Hips(290, 290, 90, 90),
     Hips(260, 250, 90, 90), Hips(250, 250, 90, 30), Hips(200, 260, 90, 90),
     Hips(250, 250, 0, 90)}

VARIABLES
    obstacles, gameSpeed, gameOver, score, hearts, playerState,
    isPaused, unpauseCountdown,
    scoredObstacles, hitObstacles, wasColliding,
    tumbleStartTime, pausedStartTime, pausedAccumulatedTime,
    invincibilityTimer, lastInvincibilityUpdate,
    nextSpawnTime, lastSpawnTime, spawnLoopActive,
    playerY,
    moveInterval, tumbleTimerInterval, difficultyInterval, countdownTimer,
    now, tickPeriod, hidden, cameraEnabled, debugMode, isLoading,
    streak, lastTick, spawnLog, tumbleActive, resolved, tumblePaused, moves, clicks, idle,
    resume, sched, jumpDetection,
    player, debugJumping, arrowUp, frameTimer,
    app, panel

vars == <<obstacles, gameSpeed, gameOver, score, hearts, playerState,
          isPaused, unpauseCountdown,
          scoredObstacles, hitObstacles, wasColliding,
          tumbleStartTime, pausedStartTime, pausedAccumulatedTime,
          invincibilityTimer, lastInvincibilityUpdate,
          nextSpawnTime, lastSpawnTime, spawnLoopActive,
          playerY,
          moveInterval, tumbleTimerInterval, difficultyInterval, countdownTimer,
          now, tickPeriod, hidden, cameraEnabled, debugMode, isLoading,
          streak, lastTick, spawnLog, tumbleActive, resolved, tumblePaused, moves, clicks, idle,
          resume, sched, jumpDetection,
          player, debugJumping, arrowUp, frameTimer,
          app, panel>>

\* the current state as one record, so that handlers and effects compose
Cur ==
    [obstacles |-> obstacles, gameSpeed |-> gameSpeed, gameOver |-> gameOver,
     score |-> score, hearts |-> hearts, playerState |-> playerState,
     isPaused |-> isPaused, unpauseCountdown |-> unpauseCountdown,
     scoredObstacles |-> scoredObstacles, hitObstacles |-> hitObstacles,
     wasColliding |-> wasColliding,
     tumbleStartTime |-> tumbleStartTime, pausedStartTime |-> pausedStartTime,
     pausedAccumulatedTime |-> pausedAccumulatedTime,
     invincibilityTimer |-> invincibilityTimer,
     lastInvincibilityUpdate |-> lastInvincibilityUpdate,
     nextSpawnTime |-> nextSpawnTime, lastSpawnTime |-> lastSpawnTime,
     spawnLoopActive |-> spawnLoopActive,
     playerY |-> playerY,
     moveInterval |-> moveInterval, tumbleTimerInterval |-> tumbleTimerInterval,
     difficultyInterval |-> difficultyInterval, countdownTimer |-> countdownTimer,
     now |-> now, tickPeriod |-> tickPeriod, hidden |-> hidden,
     cameraEnabled |-> cameraEnabled, debugMode |-> debugMode,
     isLoading |-> isLoading,
     streak |-> streak, lastTick |-> lastTick, spawnLog |-> spawnLog,
     tumbleActive |-> tumbleActive, resolved |-> resolved,
     tumblePaused |-> tumblePaused,
     moves |-> moves, clicks |-> clicks, idle |-> idle,
     resume |-> resume, sched |-> sched, jumpDetection |-> jumpDetection,
     player |-> player, debugJumping |-> debugJumping, arrowUp |-> arrowUp,
     frameTimer |-> frameTimer, app |-> app, panel |-> panel]

Become(s) ==
    /\ obstacles' = s.obstacles
    /\ gameSpeed' = s.gameSpeed
    /\ gameOver' = s.gameOver
    /\ score' = s.score
    /\ hearts' = s.hearts
    /\ playerState' = s.playerState
    /\ isPaused' = s.isPaused
    /\ unpauseCountdown' = s.unpauseCountdown
    /\ scoredObstacles' = s.scoredObstacles
    /\ hitObstacles' = s.hitObstacles
    /\ wasColliding' = s.wasColliding
    /\ tumbleStartTime' = s.tumbleStartTime
    /\ pausedStartTime' = s.pausedStartTime
    /\ pausedAccumulatedTime' = s.pausedAccumulatedTime
    /\ invincibilityTimer' = s.invincibilityTimer
    /\ lastInvincibilityUpdate' = s.lastInvincibilityUpdate
    /\ nextSpawnTime' = s.nextSpawnTime
    /\ lastSpawnTime' = s.lastSpawnTime
    /\ spawnLoopActive' = s.spawnLoopActive
    /\ playerY' = s.playerY
    /\ moveInterval' = s.moveInterval
    /\ tumbleTimerInterval' = s.tumbleTimerInterval
    /\ difficultyInterval' = s.difficultyInterval
    /\ countdownTimer' = s.countdownTimer
    /\ now' = s.now
    /\ tickPeriod' = s.tickPeriod
    /\ hidden' = s.hidden
    /\ cameraEnabled' = s.cameraEnabled
    /\ debugMode' = s.debugMode
    /\ isLoading' = s.isLoading
    /\ streak' = s.streak
    /\ lastTick' = s.lastTick
    /\ spawnLog' = s.spawnLog
    /\ tumbleActive' = s.tumbleActive
    /\ resolved' = s.resolved
    /\ tumblePaused' = s.tumblePaused
    /\ moves' = s.moves
    /\ clicks' = s.clicks
    /\ idle' = s.idle
    /\ resume' = s.resume
    /\ sched' = s.sched
    /\ jumpDetection' = s.jumpDetection
    /\ player' = s.player
    /\ debugJumping' = s.debugJumping
    /\ arrowUp' = s.arrowUp
    /\ frameTimer' = s.frameTimer
    /\ app' = s.app
    /\ panel' = s.panel

Max(a, b) == IF a >= b THEN a ELSE b
Min(a, b) == IF a <= b THEN a ELSE b

\* ------------------------------------------------------------- helpers
\* resolved before the first tumble resolution
NoResolution == [active |-> Null, paused |-> Null]

\* resume before the first Resume request of a pause: the time of the request,
\* the countdown timeouts and the further Resume clicks since, and the due time
\* of a countdown timeout that a hide event found pending
NoResume == [at |-> Null, steps |-> 0, extra |-> 0, cancelledDue |-> Null]

\* spawnLog before the first spawn attempt of a session; attempts counts the
\* ticks that found a spawn due, active is the unpaused time since the last
\* insertion and activeGap its value at that insertion, restart is the
\* unpaused time since the last restart (Play Again, or the tab shown again
\* during a session) and first its value at the first insertion that followed
NoSpawn ==
    [inserted |-> FALSE, nearest |-> Null, at |-> Null, previous |-> Null,
     attempts |-> 0, active |-> 0, activeGap |-> Null,
     restart |-> Null, first |-> Null]

\* Math.abs
Abs(a) == IF a < 0 THEN -a ELSE a

SetMin(S) == CHOOSE x \in S : \A y \in S : x <= y

\* the timers that are scheduled, by due time
PendingTimers(s) ==
    {t \in {s.moveInterval, s.tumbleTimerInterval, s.difficultyInterval,
            s.countdownTimer, s.frameTimer} : t # Null}

\* a timer fires when it is the earliest one due; the clock jumps to it
Due(t) ==
    /\ t # Null
    /\ t <= MaxTime
    /\ \A u \in PendingTimers(Cur) : t <= u
    /\ (isPaused /\ unpauseCountdown = 0) => idle < MaxIdle

\* the state at the instant t of a timer callback.  tumbleActive and
\* tumblePaused measure, independently of the refs, the unpaused and the paused
\* time spent in the current tumble.
At(t) ==
    [Cur EXCEPT !.now = t,
                !.tumbleActive =
                    IF playerState = "tumbling" /\ ~isPaused
                    THEN tumbleActive + (t - now) ELSE tumbleActive,
                !.tumblePaused =
                    IF playerState = "tumbling" /\ isPaused
                    THEN tumblePaused + (t - now) ELSE tumblePaused,
                !.idle = IF isPaused /\ unpauseCountdown = 0
                         THEN idle + 1 ELSE 0,
                !.spawnLog.active =
                    IF isPaused THEN spawnLog.active
                    ELSE spawnLog.active + (t - now),
                !.spawnLog.restart =
                    IF isPaused \/ spawnLog.restart = Null THEN spawnLog.restart
                    ELSE spawnLog.restart + (t - now)]

\* Player.jsx lines 9-12 and 109: the refs of a mounted Player, standing on
\* the ground; frames counts the animation frames since RunnerScene mounted,
\* handed is the isJumping prop the last one ran with, and clamped tells
\* whether it found the player above the ground in the game-over branch;
\* positionZ is the depth of the group, the position prop of line 1287
playerMount ==
    [positionY |-> GROUND_Y, positionZ |-> PLAYER_Z, velocityY |-> 0,
     isGrounded |-> TRUE,
     prevJumping |-> FALSE, frames |-> 0, handed |-> FALSE, clamped |-> FALSE]

\* resetSpawnTracking dating the last spawn at the reset itself
resetSpawnTrackingFromNow(s) ==
    [s EXCEPT !.lastSpawnTime = s.now,
              !.nextSpawnTime = s.now + FIRST_LOG_DELAY,
              !.spawnLoopActive = FALSE]

\* ------------------------------------------------------------- session helpers
resetSpawnTracking(s) ==
    [s EXCEPT !.lastSpawnTime = s.now - MIN_LOG_SPACING,
              !.nextSpawnTime = s.now + FIRST_LOG_DELAY,
              !.spawnLoopActive = FALSE]

\* awardScoreForObstacle counting every award check instead of the set's size
awardScoreEveryCheck(s, id) ==
    IF id \in s.hitObstacles THEN s
    ELSE [s EXCEPT !.scoredObstacles = s.scoredObstacles \cup {id},
                   !.score = s.score + 1]

\* awardScoreForObstacle without the test of the hit set
awardScoreIgnoringHits(s, id) ==
    IF id \in s.scoredObstacles THEN s
    ELSE [s EXCEPT !.scoredObstacles = s.scoredObstacles \cup {id},
                   !.score = Cardinality(s.scoredObstacles \cup {id})]

\* lines 577-587
awardScoreForObstacle(s, id) ==
    IF id \in s.hitObstacles THEN s
    ELSE IF id \in s.scoredObstacles THEN s
    ELSE [s EXCEPT !.scoredObstacles = s.scoredObstacles \cup {id},
                   !.score = Cardinality(s.scoredObstacles \cup {id})]

\* ------------------------------------------------------------- effects
\* the isPaused effect without the timestamp reset on unpausing
isPausedEffectNoReset(o, n) == n

\* useEffect(..., [isPaused]), lines 529-536
isPausedEffect(o, n) ==
    IF n.isPaused # o.isPaused
       /\ ~n.isPaused /\ n.invincibilityTimer > 0
       /\ n.lastInvincibilityUpdate # Null
    THEN [n EXCEPT !.lastInvincibilityUpdate = n.now]
    ELSE n

\* useEffect(..., [unpauseCountdown]), lines 556-574
countdownEffect(o, n) ==
    IF n.unpauseCountdown # o.unpauseCountdown
    THEN [n EXCEPT !.countdownTimer =
              IF n.unpauseCountdown <= 0 THEN Null
              ELSE n.now + COUNTDOWN_STEP_MS]
    ELSE n

\* useEffect(..., [playerState]), lines 623-679
tumbleEffect(o, n) ==
    IF n.playerState # o.playerState
    THEN IF n.playerState = "tumbling"
         THEN [n EXCEPT !.tumbleStartTime = n.now,
                        !.pausedAccumulatedTime = 0,
                        !.pausedStartTime = IF n.isPaused THEN n.now ELSE Null,
                        !.tumbleTimerInterval = n.now + TUMBLE_CHECK_MS,
                        !.sched.tumble = n.sched.tumble + 1,
                        !.sched.tumbleGen = n.sched.generation,
                        !.tumbleActive = 0,
                        !.tumblePaused = 0]
         ELSE [n EXCEPT !.tumbleTimerInterval = Null,
                        !.sched.tumble = IF n.tumbleTimerInterval # Null
                                         THEN n.sched.tumble - 1
                                         ELSE n.sched.tumble,
                        !.tumbleStartTime = Null,
                        !.pausedAccumulatedTime = 0,
                        !.pausedStartTime = Null]
    ELSE n

\* pauseAccumulationEffect forgetting the pause that just ended
pauseNotAccumulated(o, n) ==
    IF n.isPaused = o.isPaused /\ n.playerState = o.playerState THEN n
    ELSE IF n.playerState # "tumbling"
    THEN [n EXCEPT !.pausedStartTime = Null]
    ELSE IF n.isPaused /\ n.pausedStartTime = Null
    THEN [n EXCEPT !.pausedStartTime = n.now]
    ELSE IF ~n.isPaused /\ n.pausedStartTime # Null
    THEN [n EXCEPT !.pausedStartTime = Null]
    ELSE n

\* useEffect(..., [isPaused, playerState]), lines 682-697
pauseAccumulationEffect(o, n) ==
    IF n.isPaused = o.isPaused /\ n.playerState = o.playerState THEN n
    ELSE IF n.playerState # "tumbling"
    THEN [n EXCEPT !.pausedStartTime = Null]
    ELSE IF n.isPaused /\ n.pausedStartTime = Null
    THEN [n EXCEPT !.pausedStartTime = n.now]
    ELSE IF ~n.isPaused /\ n.pausedStartTime # Null
    THEN [n EXCEPT !.pausedAccumulatedTime =
                       n.pausedAccumulatedTime + (n.now - n.pausedStartTime),
                   !.pausedStartTime = Null]
    ELSE n

\* moveEffect keeping its interval when the game is over
moveEffectIgnoringGameOver(o, n) ==
    IF <<n.gameSpeed, n.gameOver, n.playerState>>
         = <<o.gameSpeed, o.gameOver, o.playerState>>
    THEN n
    ELSE LET c == IF o.moveInterval # Null
                  THEN [n EXCEPT !.moveInterval = Null, !.spawnLoopActive = FALSE,
                                 !.sched.move = n.sched.move - 1]
                  ELSE n
         IN IF c.gameSpeed = 0
            THEN [c EXCEPT !.spawnLoopActive = FALSE, !.moveInterval = Null]
            ELSE LET r == IF c.spawnLoopActive THEN resetSpawnTracking(c) ELSE c
                 IN [r EXCEPT !.spawnLoopActive = TRUE,
                              !.moveInterval = r.now + r.tickPeriod,
                              !.sched.move = r.sched.move + 1,
                              !.sched.moveGen = r.sched.generation]

\* moveEffect whose cleanup leaves the previous interval running
moveEffectNoCleanup(o, n) ==
    IF <<n.gameSpeed, n.gameOver, n.playerState>>
         = <<o.gameSpeed, o.gameOver, o.playerState>>
    THEN n
    ELSE IF n.gameSpeed = 0 \/ n.gameOver
    THEN [n EXCEPT !.spawnLoopActive = FALSE, !.moveInterval = Null]
    ELSE LET r == IF n.spawnLoopActive /\ o.moveInterval = Null
                  THEN resetSpawnTracking(n) ELSE n
         IN [r EXCEPT !.spawnLoopActive = TRUE,
                      !.moveInterval = r.now + r.tickPeriod,
                      !.sched.move = r.sched.move + 1,
                      !.sched.moveGen = r.sched.generation]

\* useEffect(..., [gameSpeed, gameOver, playerState]), lines 847-860 and 1068-1072
moveEffect(o, n) ==
    IF <<n.gameSpeed, n.gameOver, n.playerState>>
         = <<o.gameSpeed, o.gameOver, o.playerState>>
    THEN n
    ELSE LET c == IF o.moveInterval # Null   \* cleanup of the previous run
                  THEN [n EXCEPT !.moveInterval = Null, !.spawnLoopActive = FALSE,
                                 !.sched.move = n.sched.move - 1]
                  ELSE n
         IN IF c.gameSpeed = 0 \/ c.gameOver
            THEN [c EXCEPT !.spawnLoopActive = FALSE, !.moveInterval = Null]
            ELSE LET r == IF c.spawnLoopActive THEN resetSpawnTracking(c) ELSE c
                 IN [r EXCEPT !.spawnLoopActive = TRUE,
                              !.moveInterval = r.now + r.tickPeriod,
                              !.sched.move = r.sched.move + 1,
                              !.sched.moveGen = r.sched.generation]

\* useEffect(..., [gameOver]), lines 1075-1084
difficultyEffect(o, n) ==
    IF n.gameOver # o.gameOver
    THEN [n EXCEPT !.difficultyInterval =
              IF n.gameOver THEN Null ELSE n.now + DIFFICULTY_MS]
    ELSE n

\* the commit after a handler: o is the state of the last render, n the state
\* the handler left; the effects whose dependencies changed run in source order
Effects(o, n) ==
    difficultyEffect(o,
      moveEffect(o,
        pauseAccumulationEffect(o,
          tumbleEffect(o,
            countdownEffect(o,
              isPausedEffect(o, n))))))

\* ------------------------------------------------------------- moveInterval
\* lines 866-878: the invincibility countdown at the top of an unpaused tick
decrementInvincibility(s) ==
    IF s.invincibilityTimer > 0
    THEN IF s.lastInvincibilityUpdate = Null
         THEN [s EXCEPT !.lastInvincibilityUpdate = s.now]
         ELSE [s EXCEPT !.invincibilityTimer =
                            Max(0, s.invincibilityTimer
                                     - (s.now - s.lastInvincibilityUpdate)),
                        !.lastInvincibilityUpdate = s.now]
    ELSE [s EXCEPT !.lastInvincibilityUpdate = Null]

\* spawnUpdater without the separation check
spawnUpdaterAlways(prev, id) ==
    Append(prev, [id |-> id, z |-> SPAWN_Z,
                  hasHitPlayer |-> FALSE, hasPassedPlayer |-> FALSE,
                  ticks |-> 0])

\* spawnUpdater measuring the distance of the log nearest the player instead of
\* the furthest-back one
spawnUpdaterNearestPlayer(prev, id) ==
    LET zs == {prev[i].z : i \in 1..Len(prev)}
        tooClose == /\ Len(prev) > 0
                    /\ Abs(SPAWN_Z - (-SetMin({-z : z \in zs}))) < MIN_LOG_DISTANCE_Z
    IN IF tooClose THEN prev
       ELSE Append(prev, [id |-> id, z |-> SPAWN_Z,
                          hasHitPlayer |-> FALSE, hasPassedPlayer |-> FALSE,
                          ticks |-> 0])

\* lines 899-922: the updater that inserts a log unless the furthest-back
\* live log is still within MIN_LOG_DISTANCE_Z of the spawn depth
spawnUpdater(prev, id) ==
    LET zs == {prev[i].z : i \in 1..Len(prev)}
        tooClose == /\ Len(prev) > 0
                    /\ Abs(SPAWN_Z - SetMin(zs)) < MIN_LOG_DISTANCE_Z
    IN IF tooClose THEN prev
       ELSE Append(prev, [id |-> id, z |-> SPAWN_Z,
                          hasHitPlayer |-> FALSE, hasPassedPlayer |-> FALSE,
                          ticks |-> 0])

\* observation for the spawn claims: the least distance of a live log from the
\* spawn depth (Null when there is none), over every live log
Nearest(seq) ==
    IF Len(seq) = 0 THEN Null
    ELSE SetMin({Abs(SPAWN_Z - seq[i].z) : i \in 1..Len(seq)})

\* lines 886-934: the spawn attempt of a tick, gap being the random spacing drawn
spawnLogic(s, gap) ==
    IF s.nextSpawnTime # Null /\ s.now >= s.nextSpawnTime
    THEN IF s.now - s.lastSpawnTime >= MIN_LOG_SPACING
         THEN LET after == spawnUpdater(s.obstacles, s.now)
              IN [s EXCEPT !.obstacles = after,
                           !.lastSpawnTime = s.now,
                           !.nextSpawnTime = s.now + gap,
                           !.spawnLog =
                               [inserted |-> Len(after) > Len(s.obstacles),
                                nearest |-> Nearest(s.obstacles),
                                at |-> IF Len(after) > Len(s.obstacles)
                                       THEN s.now ELSE s.spawnLog.at,
                                previous |-> IF Len(after) > Len(s.obstacles)
                                             THEN s.spawnLog.at
                                             ELSE s.spawnLog.previous,
                                attempts |-> s.spawnLog.attempts + 1,
                                active |-> IF Len(after) > Len(s.obstacles)
                                           THEN 0 ELSE s.spawnLog.active,
                                activeGap |-> IF Len(after) > Len(s.obstacles)
                                              THEN s.spawnLog.active
                                              ELSE s.spawnLog.activeGap,
                                restart |-> s.spawnLog.restart,
                                first |-> IF /\ Len(after) > Len(s.obstacles)
                                             /\ s.spawnLog.restart # Null
                                             /\ s.spawnLog.first = Null
                                          THEN s.spawnLog.restart
                                          ELSE s.spawnLog.first]]
         ELSE [s EXCEPT !.nextSpawnTime = s.lastSpawnTime + MIN_LOG_SPACING]
    ELSE s

\* effectiveSpeed without the slowdown of a tumble
effectiveSpeedNoSlowdown(s) == s.gameSpeed

\* line 939
effectiveSpeed(s) ==
    IF s.playerState = "tumbling" THEN (s.gameSpeed * 4) \div 10 ELSE s.gameSpeed

\* lines 952-957 and 988-992: one log moved by the tick; ticks counts the
\* movement ticks of the log
moved(s, obs) ==
    [obs EXCEPT !.z = obs.z + effectiveSpeed(s),
                !.ticks = obs.ticks + 1,
                !.hasPassedPlayer =
                    (obs.z + effectiveSpeed(s) > PLAYER_Z) \/ obs.hasPassedPlayer]

\* lines 966-978: lateral (x is 0 for the player and every log), depth and
\* vertical overlap of a moved log with the player
overlaps(s, obs) ==
    /\ Abs(0 - 0) < 18000
    /\ obs.z > Z_OVERLAP_MIN /\ obs.z < Z_OVERLAP_MAX
    /\ s.playerY < Y_CLEARANCE

\* damageGuard without the test of the player state
damageGuardAnyState(s, collisionEnter, collisionObsId) ==
    /\ collisionEnter
    /\ collisionObsId # Null
    /\ s.invincibilityTimer <= 0

\* line 1002: the guard of a damage event
damageGuard(s, collisionEnter, collisionObsId) ==
    /\ collisionEnter
    /\ collisionObsId # Null
    /\ s.playerState # "tumbling"
    /\ s.playerState = "running"
    /\ s.invincibilityTimer <= 0

\* damageBranch tumbling on the last life as on the others
damageBranchAlwaysTumble(s) ==
    IF s.hearts > 0
    THEN [s EXCEPT !.hearts = s.hearts - 1,
                   !.playerState = "tumbling",
                   !.invincibilityTimer = INVINCIBILITY_MS,
                   !.lastInvincibilityUpdate = s.now]
    ELSE s

\* damageBranch taking the last life without ending the game
damageBranchNoGameOver(s) ==
    IF s.hearts > 1
    THEN [s EXCEPT !.hearts = s.hearts - 1,
                   !.playerState = "tumbling",
                   !.invincibilityTimer = INVINCIBILITY_MS,
                   !.lastInvincibilityUpdate = s.now]
    ELSE [s EXCEPT !.hearts = 0,
                   !.invincibilityTimer = INVINCIBILITY_MS,
                   !.lastInvincibilityUpdate = s.now]

\* damageBranch raising the gameOver flag without the GameOver player state
damageBranchFlagOnly(s) ==
    IF s.hearts > 1
    THEN [s EXCEPT !.hearts = s.hearts - 1,
                   !.playerState = "tumbling",
                   !.invincibilityTimer = INVINCIBILITY_MS,
                   !.lastInvincibilityUpdate = s.now]
    ELSE IF s.hearts = 1
    THEN [s EXCEPT !.hearts = 0,
                   !.gameOver = TRUE,
                   !.invincibilityTimer = INVINCIBILITY_MS,
                   !.lastInvincibilityUpdate = s.now]
    ELSE s

\* lines 1021-1043: lives and player state on a damage event
damageBranch(s) ==
    IF s.hearts > 1
    THEN [s EXCEPT !.hearts = s.hearts - 1,
                   !.playerState = "tumbling",
                   !.invincibilityTimer = INVINCIBILITY_MS,
                   !.lastInvincibilityUpdate = s.now]
    ELSE IF s.hearts = 1
    THEN [s EXCEPT !.hearts = 0,
                   !.gameOver = TRUE,
                   !.playerState = "gameOver",
                   !.invincibilityTimer = INVINCIBILITY_MS,
                   !.lastInvincibilityUpdate = s.now]
    ELSE IF s.hearts = 0
    THEN [s EXCEPT !.gameOver = TRUE, !.playerState = "gameOver"]
    ELSE s

\* awardAll testing the depth a log had before the tick moved it
RECURSIVE awardAllBeforeMove(_, _, _)
awardAllBeforeMove(s, seq, i) ==
    IF i > Len(seq) THEN s
    ELSE awardAllBeforeMove(IF seq[i].z - effectiveSpeed(s) > SCORE_Z
                            THEN awardScoreForObstacle(s, seq[i].id) ELSE s,
                            seq, i + 1)

\* lines 1051-1059: the award check over every moved log, in array order
RECURSIVE awardAll(_, _, _)
awardAll(s, seq, i) ==
    IF i > Len(seq) THEN s
    ELSE awardAll(IF seq[i].z > SCORE_Z
                  THEN awardScoreForObstacle(s, seq[i].id) ELSE s,
                  seq, i + 1)

\* despawn removing a log as soon as it is behind the player
despawnBehindPlayer(seq) ==
    SelectSeq(seq, LAMBDA obs : obs.z <= PLAYER_Z)

\* lines 1061-1064
despawn(seq) ==
    SelectSeq(seq, LAMBDA obs : obs.z <= PLAYER_Z + LOG_DESPAWN_DISTANCE)

\* lines 936-1065: the updater that moves the logs, detects the collision-enter
\* edge, applies damage, awards score and removes logs past the despawn depth
moveUpdater(s) ==
    LET updated == [i \in 1..Len(s.obstacles) |-> moved(s, s.obstacles[i])]
        hitIdx == {i \in 1..Len(updated) : overlaps(s, updated[i])}
        isCurrentlyColliding == hitIdx # {}
        collisionObsId ==
            IF hitIdx = {} THEN Null ELSE updated[SetMin(hitIdx)].id
        collisionEnter == isCurrentlyColliding /\ ~s.wasColliding
        damage == damageGuard(s, collisionEnter, collisionObsId)
        marked == [s EXCEPT !.hitObstacles =
                       s.hitObstacles \cup {updated[i].id : i \in hitIdx}]
        hit == IF damage
               THEN damageBranch(
                      [marked EXCEPT !.obstacles =
                          [i \in 1..Len(updated) |->
                              IF updated[i].id = collisionObsId
                              THEN [updated[i] EXCEPT !.hasHitPlayer = TRUE]
                              ELSE updated[i]]])
               ELSE [marked EXCEPT !.obstacles = updated]
        edge == [hit EXCEPT !.wasColliding = isCurrentlyColliding]
        scored == awardAll(edge, edge.obstacles, 1)
    IN [scored EXCEPT
          !.obstacles = despawn(scored.obstacles),
          !.streak =
              [id \in {updated[i].id : i \in hitIdx} |->
                  [n |-> IF id \in DOMAIN s.streak THEN 2 ELSE 1,
                   vulnerable |->
                       IF id \in DOMAIN s.streak THEN s.streak[id].vulnerable
                       ELSE s.playerState = "running" /\ s.invincibilityTimer <= 0,
                   dmg |-> (IF id \in DOMAIN s.streak THEN s.streak[id].dmg ELSE 0)
                           + (IF damage /\ id = collisionObsId THEN 1 ELSE 0)]],
          !.lastTick =
              [enter |-> collisionEnter, damaged |-> damage,
               stateBefore |-> s.playerState,
               invincible |-> s.invincibilityTimer > 0,
               heartsBefore |-> s.hearts, heartsAfter |-> hit.hearts,
               stateAfter |-> hit.playerState]]

\* moveTick without the pause check
moveTickIgnoringPause(s, gap) ==
    LET d == decrementInvincibility(s)
    IN IF d.gameSpeed = 0 \/ d.gameOver
       THEN [d EXCEPT !.spawnLoopActive = FALSE]
       ELSE moveUpdater(spawnLogic(d, gap))

\* lines 860-1066: one firing of the move interval at s.now
moveTick(s, gap) ==
    IF s.isPaused THEN s
    ELSE LET d == decrementInvincibility(s)
         IN IF d.gameSpeed = 0 \/ d.gameOver
            THEN [d EXCEPT !.spawnLoopActive = FALSE]
            ELSE moveUpdater(spawnLogic(d, gap))

\* ------------------------------------------------------------- handlers
\* the tumble-duration checker never finding the duration reached
checkTumbleNeverExpires(s) == s

\* lines 635-657: the tumble-duration checker at s.now
checkTumbleDuration(s) ==
    IF s.isPaused THEN s
    ELSE LET elapsedTime == s.now - s.tumbleStartTime
             activeTime == elapsedTime - s.pausedAccumulatedTime
         IN IF activeTime >= TUMBLE_DURATION
            THEN [s EXCEPT !.playerState = "running",
                           !.wasColliding = FALSE,
                           !.tumbleTimerInterval = Null,
                           !.sched.tumble = IF s.tumbleTimerInterval # Null
                                            THEN s.sched.tumble - 1
                                            ELSE s.sched.tumble,
                           !.resolved = [active |-> s.tumbleActive,
                                         paused |-> s.tumblePaused]]
            ELSE s

\* lines 1078-1081
raiseDifficulty(s) ==
    [s EXCEPT !.gameSpeed =
        Min(s.gameSpeed + SPEED_INCREMENT, (BASE_LOG_SPEED * 3) \div 2)]

\* lines 562-571: the one-second timeout of the resume countdown
countdownTimeout(s) ==
    IF s.unpauseCountdown = 1
    THEN [s EXCEPT !.isPaused = FALSE, !.unpauseCountdown = 0]
    ELSE [s EXCEPT !.unpauseCountdown = s.unpauseCountdown - 1]

\* pauseButton restarting the countdown on a Resume click made during it
pauseButtonRestarts(s) ==
    IF s.isPaused = FALSE
    THEN [s EXCEPT !.isPaused = TRUE, !.unpauseCountdown = 0]
    ELSE IF s.unpauseCountdown = 2 THEN [s EXCEPT !.unpauseCountdown = COUNTDOWN_START]
    ELSE IF s.unpauseCountdown > 0 THEN s
    ELSE [s EXCEPT !.unpauseCountdown = COUNTDOWN_START]

\* lines 1197-1212: the Pause/Resume button
pauseButton(s) ==
    IF s.isPaused = FALSE
    THEN [s EXCEPT !.isPaused = TRUE, !.unpauseCountdown = 0]
    ELSE IF s.unpauseCountdown > 0 THEN s
    ELSE [s EXCEPT !.unpauseCountdown = COUNTDOWN_START]

\* handleVisibilityChange leaving a running countdown alone
visibilityKeepsCountdown(s) ==
    IF s.hidden
    THEN [s EXCEPT !.isPaused = TRUE, !.spawnLoopActive = FALSE]
    ELSE IF s.gameSpeed > 0 /\ ~s.gameOver
    THEN resetSpawnTracking([s EXCEPT !.spawnLog.restart = 0,
                                      !.spawnLog.first = Null])
    ELSE s

\* lines 540-547 and 816-824: both visibilitychange listeners, in the order
\* they were registered
handleVisibilityChange(s) ==
    IF s.hidden
    THEN [s EXCEPT !.isPaused = TRUE, !.unpauseCountdown = 0,
                   !.spawnLoopActive = FALSE]
    ELSE IF s.gameSpeed > 0 /\ ~s.gameOver
    THEN resetSpawnTracking([s EXCEPT !.spawnLog.restart = 0,
                                      !.spawnLog.first = Null])
    ELSE s

\* resetGame keeping the hit set of the run that ended
resetGameKeepingHits(s) ==
    resetSpawnTracking(
      [s EXCEPT !.obstacles = << >>,
                !.spawnLoopActive = FALSE,
                !.scoredObstacles = {},
                !.score = 0,
                !.gameOver = FALSE,
                !.hearts = MAX_HEARTS,
                !.playerState = "running",
                !.playerY = GROUND_Y,
                !.wasColliding = FALSE,
                !.invincibilityTimer = 0,
                !.lastInvincibilityUpdate = Null,
                !.gameSpeed = BASE_LOG_SPEED,
                !.streak = << >>,
                !.spawnLog = [NoSpawn EXCEPT !.restart = 0],
                !.sched.generation = s.sched.generation + 1,
                !.moves = 0,
                !.player = [playerMount EXCEPT !.frames = s.player.frames]])

\* lines 598-619
resetGame(s) ==
    resetSpawnTracking(
      [s EXCEPT !.obstacles = << >>,
                !.spawnLoopActive = FALSE,
                !.hitObstacles = {},
                !.scoredObstacles = {},
                !.score = 0,
                !.gameOver = FALSE,
                !.hearts = MAX_HEARTS,
                !.playerState = "running",
                !.playerY = GROUND_Y,
                !.wasColliding = FALSE,
                !.invincibilityTimer = 0,
                !.lastInvincibilityUpdate = Null,
                !.gameSpeed = BASE_LOG_SPEED,
                !.streak = << >>,
                !.spawnLog = [NoSpawn EXCEPT !.restart = 0],
                !.sched.generation = s.sched.generation + 1,
                !.moves = 0,
                !.player = [playerMount EXCEPT !.frames = s.player.frames]])

\* lines 833-839: the start-game effect, run when isLoading, debugMode or
\* cameraEnabled changed
startGameEffect(s) ==
    IF s.debugMode \/ ~s.cameraEnabled \/ ~s.isLoading
    THEN resetSpawnTracking([s EXCEPT !.gameSpeed = BASE_LOG_SPEED])
    ELSE s

\* ------------------------------------------------------------- jump detection
\* part_006 lines 8-12: the state and refs of useJumpDetection at mount, for
\* the baseline RunnerScene passes (lines 700-703); observed counts the
\* detector's results, accepted tells whether the last one passed the
\* keypoint checks, and poses is the argument the effect last ran with
noObservation(baseline) ==
    [baselineHipHeight |-> baseline, smoothedHipHeight |-> Null,
     jumpThreshold |-> Null, prevBaseline |-> Null,
     isJumping |-> FALSE, currentHipHeight |-> Null,
     observed |-> 0, accepted |-> FALSE, poses |-> NoPose]

\* noPoses keeping the smoothed hip height over the gap
noPosesKeepsSmoothed(jd) ==
    [jd EXCEPT !.isJumping = FALSE, !.accepted = FALSE, !.poses = NoPose]

\* part_006 lines 15-21: no pose detected
noPoses(jd) ==
    [jd EXCEPT !.smoothedHipHeight = Null, !.currentHipHeight = Null,
               !.isJumping = FALSE, !.accepted = FALSE, !.poses = NoPose]

\* the keypoint checks without the minimum score and the height difference
hipsRejectedIfMissing(pose) ==
    \/ pose.leftScore = 0
    \/ pose.rightScore = 0

\* part_006 lines 40 and 45-49: the keypoint checks
hipsRejected(pose) ==
    \/ pose.leftScore = 0
    \/ pose.rightScore = 0
    \/ pose.leftScore < MIN_HIP_SCORE
    \/ pose.rightScore < MIN_HIP_SCORE
    \/ Abs(pose.leftY - pose.rightY) > MAX_HIP_DIFF

\* part_006 lines 51-58: the smoothed hip height
smoothHipHeight(jd, pose) ==
    LET avgHipY == (pose.leftY + pose.rightY) \div 2
    IN IF jd.smoothedHipHeight = Null
       THEN avgHipY
       ELSE (jd.smoothedHipHeight * 3 + avgHipY * 7) \div 10

\* part_006 lines 62-74: the threshold follows the baseline
setThreshold(jd) ==
    IF jd.baselineHipHeight # Null
    THEN IF jd.prevBaseline # jd.baselineHipHeight
         THEN [jd EXCEPT !.jumpThreshold = jd.baselineHipHeight - JUMP_MARGIN,
                         !.prevBaseline = jd.baselineHipHeight]
         ELSE jd
    ELSE [jd EXCEPT !.jumpThreshold = Null, !.prevBaseline = Null]

\* the comparison of line 81 with <= for <
detectJumpInclusive(jd) ==
    IF jd.jumpThreshold # Null /\ jd.smoothedHipHeight # Null
         /\ jd.baselineHipHeight # Null
    THEN LET hipMovement == jd.baselineHipHeight - jd.smoothedHipHeight
         IN [jd EXCEPT !.isJumping =
                 /\ jd.smoothedHipHeight <= jd.jumpThreshold
                 /\ hipMovement >= MIN_HIP_MOVEMENT]
    ELSE [jd EXCEPT !.isJumping = FALSE]

\* part_006 lines 76-86: the classification
detectJump(jd) ==
    IF jd.jumpThreshold # Null /\ jd.smoothedHipHeight # Null
         /\ jd.baselineHipHeight # Null
    THEN LET hipMovement == jd.baselineHipHeight - jd.smoothedHipHeight
         IN [jd EXCEPT !.isJumping =
                 /\ jd.smoothedHipHeight < jd.jumpThreshold
                 /\ hipMovement >= MIN_HIP_MOVEMENT]
    ELSE [jd EXCEPT !.isJumping = FALSE]

\* part_006 lines 14-87: the effect of useJumpDetection, run when the poses
\* changed
useJumpDetection(jd, pose) ==
    IF ~pose.present THEN noPoses(jd)
    ELSE IF hipsRejected(pose) THEN [jd EXCEPT !.accepted = FALSE]
    ELSE LET smoothed == smoothHipHeight(jd, pose)
         IN detectJump(setThreshold(
                [jd EXCEPT !.smoothedHipHeight = smoothed,
                           !.currentHipHeight = smoothed,
                           !.accepted = TRUE]))

\* ------------------------------------------------------------- calibration
\* App.jsx line 8: calibrationData null, of which RunnerScene reads the
\* baseline as null (calibrationData?.baselineHipHeight ?? null)
NoCalibration == [baselineHipHeight |-> Null, avgJumpHeight |-> Null]

\* App.jsx lines 7-8: the App before calibration
appMount == [gameState |-> "calibration", calibrationData |-> NoCalibration]

\* calibration data of a completed calibration: a baseline of 300 pixels and
\* an average amplitude of 50 pixels
Calibrated == [baselineHipHeight |-> 300 * PIXEL, avgJumpHeight |-> 50 * PIXEL]

\* CalibrationPanel.jsx lines 11-22: the panel at mount, with the camera on and
\* the video ready.  jd is the panel's instance of useJumpDetection; starts
\* counts the clicks on Start Calibration, disturbed the irregular results of
\* the standing phase, jumpObs the results of the jumping phase, edges the
\* false-to-true changes of the classifier output in the jumping phase,
\* dropped the samples shifted out of the buffer and measured the buffer the
\* baseline was computed from
panelMount ==
    [step |-> 0, baselineHipHeight |-> Null, jumpHeights |-> << >>,
     baselineSamples |-> << >>, prevJumping |-> FALSE, countdown |-> Null,
     posesDetected |-> FALSE, jd |-> noObservation(Null),
     starts |-> 0, disturbed |-> 0, jumpObs |-> 0, edges |-> 0, dropped |-> 0,
     measured |-> << >>]

\* samples.reduce((a, b) => a + b, 0)
RECURSIVE Sum(_)
Sum(seq) == IF seq = << >> THEN 0 ELSE Head(seq) + Sum(Tail(seq))

\* the deviations of the samples from the first one, in 1/10 pixel
RECURSIVE Deviations(_, _)
Deviations(seq, ref) ==
    IF seq = << >> THEN << >>
    ELSE <<(Head(seq) - ref) \div DECIPIXEL>> \o Deviations(Tail(seq), ref)

RECURSIVE SumOfSquares(_)
SumOfSquares(seq) ==
    IF seq = << >> THEN 0 ELSE Head(seq) * Head(seq) + SumOfSquares(Tail(seq))

\* the stability test accepting every buffer
stdDevIgnored(samples, limit) == TRUE

\* lines 147-152: stdDev < 5, that is variance < 25, the variance being
\* (n * sum of squares - square of the sum) / n^2 of the deviations
stdDevBelow(samples, limit) ==
    LET d == Deviations(samples, samples[1])
        n == Len(samples)
    IN n * SumOfSquares(d) - Sum(d) * Sum(d)
         < limit * limit * (PIXEL \div DECIPIXEL) * (PIXEL \div DECIPIXEL) * n * n

\* lines 96-109: both hip keypoints are among the keypoints
posesDetectedEffect(pose) ==
    pose.present /\ pose.leftScore # 0 /\ pose.rightScore # 0

\* lines 112-114
handleStartCalibration(p) ==
    [p EXCEPT !.countdown = CALIBRATION_COUNTDOWN, !.starts = p.starts + 1]

\* lines 117-132: the timeout of the countdown effect
countdownTimer1000(p) ==
    IF p.countdown = 1
    THEN [p EXCEPT !.step = 1, !.countdown = Null]
    ELSE [p EXCEPT !.countdown = p.countdown - 1]

\* lines 135-159: the baseline effect, run with the values of a render
measureBaseline(p) ==
    IF p.step = 1 /\ p.jd.currentHipHeight # Null /\ p.baselineHipHeight = Null
    THEN LET pushed == Append(p.baselineSamples, p.jd.currentHipHeight)
             samples == IF Len(pushed) > MAX_BASELINE_SAMPLES
                        THEN Tail(pushed) ELSE pushed
             shifted == IF Len(pushed) > MAX_BASELINE_SAMPLES THEN 1 ELSE 0
         IN IF /\ Len(samples) >= MIN_BASELINE_SAMPLES
               /\ stdDevBelow(samples, STABLE_STD_DEV)
            THEN [p EXCEPT !.baselineHipHeight = Sum(samples) \div Len(samples),
                           !.step = 2,
                           !.baselineSamples = << >>,
                           !.dropped = p.dropped + shifted,
                           !.measured = samples]
            ELSE [p EXCEPT !.baselineSamples = samples,
                           !.dropped = p.dropped + shifted]
    ELSE p

\* measureJump without the edge detection
measureJumpNoEdge(render, p) ==
    IF /\ render.step = 2 /\ render.baselineHipHeight # Null
       /\ render.jd.currentHipHeight # Null
    THEN LET jumpHeight == render.baselineHipHeight - render.jd.currentHipHeight
         IN [p EXCEPT
               !.jumpHeights =
                   IF render.jd.isJumping
                        /\ jumpHeight > MIN_JUMP_HEIGHT * PIXEL
                   THEN Append(p.jumpHeights,
                               (jumpHeight + PIXEL \div 2) \div PIXEL)
                   ELSE p.jumpHeights,
               !.prevJumping = render.jd.isJumping]
    ELSE p

\* lines 162-173: the jump effect, run with the values of a render; it writes
\* the ref prevJumping and appends Math.round(jumpHeight)
measureJump(render, p) ==
    IF /\ render.step = 2 /\ render.baselineHipHeight # Null
       /\ render.jd.currentHipHeight # Null
    THEN LET jumpHeight == render.baselineHipHeight - render.jd.currentHipHeight
         IN [p EXCEPT
               !.jumpHeights =
                   IF render.jd.isJumping /\ ~p.prevJumping
                        /\ jumpHeight > MIN_JUMP_HEIGHT * PIXEL
                   THEN Append(p.jumpHeights,
                               (jumpHeight + PIXEL \div 2) \div PIXEL)
                   ELSE p.jumpHeights,
               !.prevJumping = render.jd.isJumping]
    ELSE p

\* the commit of a render of the panel: o holds the values of the previous
\* render, n those of this one; the effects whose dependencies changed run in
\* source order, each with the values of this render
panelEffects(o, n) ==
    LET b == IF <<n.step, n.jd.currentHipHeight, n.baselineHipHeight>>
                 # <<o.step, o.jd.currentHipHeight, o.baselineHipHeight>>
             THEN measureBaseline(n) ELSE n
    IN IF <<n.step, n.baselineHipHeight, n.jd.isJumping, n.jd.currentHipHeight>>
            # <<o.step, o.baselineHipHeight, o.jd.isJumping, o.jd.currentHipHeight>>
       THEN measureJump(n, b) ELSE b

\* the classifier output became true in the jumping phase
risingEdge(o, n) ==
    IF n.step = 2 /\ ~o.jd.isJumping /\ n.jd.isJumping THEN 1 ELSE 0

\* a result of the detector reaches the panel: the effect of useJumpDetection
\* runs, its state updates re-render the panel, and when that render froze the
\* baseline the effect of useJumpDetection runs again for the same poses
\* (its dependency baselineHipHeight changed), which re-renders once more
posesChanged(p, pose) ==
    LET n1 == [p EXCEPT !.jd = [useJumpDetection(p.jd, pose) EXCEPT
                                   !.observed = p.jd.observed + 1,
                                   !.poses = pose],
                        !.posesDetected = posesDetectedEffect(pose)]
        e1 == [n1 EXCEPT !.edges = p.edges + risingEdge(p, n1)]
        r2 == panelEffects(p, e1)
    IN IF r2.baselineHipHeight = e1.baselineHipHeight THEN r2
       ELSE LET r3 == panelEffects(e1, r2)
                n4 == [r3 EXCEPT !.jd =
                          useJumpDetection(
                              [r3.jd EXCEPT !.baselineHipHeight =
                                                r3.baselineHipHeight],
                              r3.jd.poses)]
                e4 == [n4 EXCEPT !.edges = r3.edges + risingEdge(r3, n4)]
            IN panelEffects(r3, e4)

\* lines 175-185: the data handed to onComplete
handleComplete(p) ==
    [baselineHipHeight |-> p.baselineHipHeight,
     avgJumpHeight |-> IF Len(p.jumpHeights) > 0
                       THEN (Sum(p.jumpHeights) * PIXEL) \div Len(p.jumpHeights)
                       ELSE DEFAULT_JUMP_HEIGHT * PIXEL]

\* the Complete button enabled whatever was recorded
completeAlwaysEnabled(p) == FALSE

\* line 266: the disabled attribute of the Complete button
completeDisabled(p) == Len(p.jumpHeights) = 0

\* App.jsx lines 52-55
onComplete(a, data) ==
    [a EXCEPT !.calibrationData = data, !.gameState = "customization"]

\* App.jsx lines 59-71: the App once RunnerScene is mounted, in debug mode
\* (no calibration) or after a calibration
appPlaying(debug) ==
    [gameState |-> "playing",
     calibrationData |-> IF debug THEN NoCalibration ELSE Calibrated]

\* ------------------------------------------------------------- player
\* RunnerScene.jsx line 706: the jump boolean of the source in use
rawIsJumping(s) ==
    IF s.debugMode \/ ~s.cameraEnabled THEN s.debugJumping
    ELSE s.jumpDetection.isJumping

\* line 708 without the test of the player state
isJumpingUngated(s) == rawIsJumping(s)

\* RunnerScene.jsx line 708: the jump boolean handed to Player
isJumping(s) ==
    IF s.playerState = "running" \/ s.playerState = "tumbling"
    THEN rawIsJumping(s)
    ELSE FALSE

\* Player.jsx lines 25-34: the game-over branch of useFrame
holdAtGround(p) ==
    [p EXCEPT !.positionY = IF p.positionY > GROUND_Y THEN GROUND_Y
                            ELSE p.positionY,
              !.velocityY = 0,
              !.isGrounded = TRUE,
              !.clamped = p.positionY > GROUND_Y]

\* integrate jumping on a rising edge in the air as well
integrateAirJump(p, jump, state) ==
    LET jumped == /\ jump
                  /\ ~p.prevJumping
                  /\ (state = "running" \/ state = "tumbling")
        velocity == (IF jumped THEN JUMP_FORCE ELSE p.velocityY) - GRAVITY_STEP
        grounded == IF jumped THEN FALSE ELSE p.isGrounded
        newY == p.positionY + velocity
    IN IF newY <= GROUND_Y
       THEN [p EXCEPT !.positionY = GROUND_Y, !.velocityY = 0,
                      !.isGrounded = TRUE, !.prevJumping = jump,
                      !.clamped = FALSE]
       ELSE [p EXCEPT !.positionY = newY, !.velocityY = velocity,
                      !.isGrounded = IF velocity > 0 THEN FALSE ELSE grounded,
                      !.prevJumping = jump, !.clamped = FALSE]

\* integrate jumping whenever the jump boolean is true on the ground
integrateHeldJump(p, jump, state) ==
    LET jumped == /\ jump
                  /\ p.isGrounded
                  /\ (state = "running" \/ state = "tumbling")
        velocity == (IF jumped THEN JUMP_FORCE ELSE p.velocityY) - GRAVITY_STEP
        grounded == IF jumped THEN FALSE ELSE p.isGrounded
        newY == p.positionY + velocity
    IN IF newY <= GROUND_Y
       THEN [p EXCEPT !.positionY = GROUND_Y, !.velocityY = 0,
                      !.isGrounded = TRUE, !.prevJumping = jump,
                      !.clamped = FALSE]
       ELSE [p EXCEPT !.positionY = newY, !.velocityY = velocity,
                      !.isGrounded = IF velocity > 0 THEN FALSE ELSE grounded,
                      !.prevJumping = jump, !.clamped = FALSE]

\* Player.jsx lines 36-62: jump on the rising edge, gravity, ground collision
integrate(p, jump, state) ==
    LET jumped == /\ jump
                  /\ ~p.prevJumping
                  /\ p.isGrounded
                  /\ (state = "running" \/ state = "tumbling")
        velocity == (IF jumped THEN JUMP_FORCE ELSE p.velocityY) - GRAVITY_STEP
        grounded == IF jumped THEN FALSE ELSE p.isGrounded
        newY == p.positionY + velocity
    IN IF newY <= GROUND_Y
       THEN [p EXCEPT !.positionY = GROUND_Y, !.velocityY = 0,
                      !.isGrounded = TRUE, !.prevJumping = jump,
                      !.clamped = FALSE]
       ELSE [p EXCEPT !.positionY = newY, !.velocityY = velocity,
                      !.isGrounded = IF velocity > 0 THEN FALSE ELSE grounded,
                      !.prevJumping = jump, !.clamped = FALSE]

\* Player.jsx lines 17-71 with RunnerScene.jsx lines 842-844: one animation
\* frame of Player, which reports the position unless it returned early
useFrame(s, jump) ==
    IF s.isPaused THEN s
    ELSE IF s.playerState = "gameOver"
    THEN [s EXCEPT !.player = holdAtGround(s.player)]
    ELSE LET p == integrate(s.player, jump, s.playerState)
         IN [s EXCEPT !.player = p, !.playerY = p.positionY]

\* ------------------------------------------------------------- actions
Tick ==
    /\ Due(moveInterval)
    /\ \E gap \in SpawnGaps :
         LET s == [At(moveInterval) EXCEPT
                      !.moveInterval = moveInterval + tickPeriod]
         IN Become(Effects(Cur, moveTick(s, gap)))

CheckTumble ==
    /\ Due(tumbleTimerInterval)
    /\ LET s == [At(tumbleTimerInterval) EXCEPT
                    !.tumbleTimerInterval = tumbleTimerInterval + TUMBLE_CHECK_MS]
       IN Become(Effects(Cur, checkTumbleDuration(s)))

Difficulty ==
    /\ Due(difficultyInterval)
    /\ LET s == [At(difficultyInterval) EXCEPT
                    !.difficultyInterval = difficultyInterval + DIFFICULTY_MS]
       IN Become(Effects(Cur, raiseDifficulty(s)))

CountdownStep ==
    /\ Due(countdownTimer)
    /\ LET s == [At(countdownTimer) EXCEPT
                    !.countdownTimer = Null,
                    !.resume.steps = resume.steps + 1]
       IN Become(Effects(Cur, countdownTimeout(s)))

\* lines 699-708 and 711-735: the jump boolean can be true only from the Up
\* Arrow key of debug mode or from the pose classifier of a loaded detector
CanJump == debugMode \/ (cameraEnabled /\ ~isLoading)

\* Player.jsx lines 17-34 and 64-71, RunnerScene.jsx lines 842-844: a frame of
\* the Player component reports its height unless paused or game over
PlayerFrame(ys) ==
    /\ ~isPaused
    /\ playerState # "gameOver"
    /\ moves < MaxMoves
    /\ \E y \in ys :
         /\ y # playerY
         /\ y > GROUND_Y => CanJump
         /\ Become([Cur EXCEPT !.playerY = y, !.moves = moves + 1])

UpdatePlayerPosition == PlayerFrame(PlayerYs)

\* the frames of a player who never jumps: the first one reports the ground
ReportGrounded == PlayerFrame({GROUND_Y})

\* an animation frame: useFrame runs with the props of the last render
Frame ==
    /\ Due(frameTimer)
    /\ LET s == [At(frameTimer) EXCEPT
                    !.frameTimer = frameTimer + FRAME_MS,
                    !.player.frames = player.frames + 1,
                    !.player.handed = isJumping(Cur)]
       IN Become(useFrame(s, isJumping(s)))

\* the Up Arrow key changes in one of the two intervals, at most MaxKeys times
KeyActs ==
    /\ debugMode
    /\ arrowUp.events < MaxKeys
    /\ \/ now >= KeyFrom /\ now <= KeyTo
       \/ now >= KeyAgain /\ now <= KeyAgain + (KeyTo - KeyFrom)

\* lines 713-718: handleKeyDown
KeyDown ==
    /\ KeyActs
    /\ ~arrowUp.held
    /\ Become([Cur EXCEPT !.debugJumping = IF gameOver THEN debugJumping
                                           ELSE TRUE,
                          !.arrowUp = [held |-> TRUE,
                                       events |-> arrowUp.events + 1]])

\* lines 720-725: handleKeyUp
KeyUp ==
    /\ KeyActs
    /\ arrowUp.held
    /\ Become([Cur EXCEPT !.debugJumping = FALSE,
                          !.arrowUp = [held |-> FALSE,
                                       events |-> arrowUp.events + 1]])

\* the Play Again button exists only on the game-over overlay (lines 1098-1128)
ResetGame ==
    /\ gameOver
    /\ Become(Effects(Cur, resetGame(Cur)))

\* the user acts between InputFrom and InputTo, at most MaxClicks times
UserActs ==
    /\ clicks < MaxClicks
    /\ now >= InputFrom
    /\ now <= InputTo

\* the Pause/Resume button (lines 1196-1212); a press that pauses falls in the
\* user's interval, the presses that follow it need not
PauseClick ==
    /\ ~hidden
    /\ clicks < MaxClicks
    /\ isPaused \/ UserActs
    /\ Become(Effects(Cur, pauseButton(
                  [Cur EXCEPT !.clicks = clicks + 1, !.idle = 0,
                              !.resume =
                                  IF ~isPaused THEN NoResume
                                  ELSE IF resume.at = Null
                                  THEN [resume EXCEPT !.at = now]
                                  ELSE [resume EXCEPT !.extra = resume.extra + 1]])))

\* visibilitychange with document.hidden = true
TabHidden ==
    /\ ~hidden
    /\ clicks < MaxClicks
    /\ isPaused \/ UserActs
    /\ Become(Effects(Cur, handleVisibilityChange(
                  [Cur EXCEPT !.hidden = TRUE, !.clicks = clicks + 1,
                              !.idle = 0,
                              !.resume = [NoResume EXCEPT
                                             !.cancelledDue = countdownTimer]])))

\* visibilitychange with document.hidden = false
TabVisible ==
    /\ hidden
    /\ clicks < MaxClicks
    /\ Become(Effects(Cur, handleVisibilityChange(
                  [Cur EXCEPT !.hidden = FALSE, !.clicks = clicks + 1,
                              !.idle = 0])))

\* App.jsx lines 29-33: the camera checkbox; cameraEnabled is a dependency of
\* the start-game effect
CameraToggle ==
    /\ UserActs
    /\ Become(Effects(Cur, startGameEffect(
                  [Cur EXCEPT !.cameraEnabled = ~cameraEnabled,
                              !.clicks = clicks + 1,
                              !.jumpDetection =
                                  IF cameraEnabled THEN noPoses(jumpDetection)
                                  ELSE jumpDetection])))

\* usePose.js lines 17-29: the detector finished loading, at any time from
\* InputFrom on; isLoading is a dependency of the start-game effect
PoseLoaded ==
    /\ isLoading
    /\ now >= InputFrom
    /\ Become(Effects(Cur, startGameEffect([Cur EXCEPT !.isLoading = FALSE])))

\* usePose.js lines 65-96: the detector delivers a result for a video frame,
\* which re-runs the effect of useJumpDetection
PoseObserved ==
    /\ cameraEnabled
    /\ ~debugMode
    /\ ~isLoading
    /\ jumpDetection.observed < MaxObs
    /\ \E pose \in PoseResults :
         Become([Cur EXCEPT !.jumpDetection =
                    [useJumpDetection(jumpDetection, pose) EXCEPT
                        !.observed = jumpDetection.observed + 1,
                        !.poses = pose]])

\* ------------------------------------------------------------- initial state
\* the component after mount: the mount effects have run (start-game effect,
\* then the move effect of the re-render that setGameSpeed causes)
InitGame(period, camera, debug) ==
    LET started == debug \/ ~camera
    IN
    /\ obstacles = << >>
    /\ gameSpeed = IF started THEN BASE_LOG_SPEED ELSE 0
    /\ gameOver = FALSE
    /\ score = 0
    /\ hearts = MAX_HEARTS
    /\ playerState = "running"
    /\ isPaused = FALSE
    /\ unpauseCountdown = 0
    /\ scoredObstacles = {}
    /\ hitObstacles = {}
    /\ wasColliding = FALSE
    /\ tumbleStartTime = Null
    /\ pausedStartTime = Null
    /\ pausedAccumulatedTime = 0
    /\ invincibilityTimer = 0
    /\ lastInvincibilityUpdate = Null
    /\ nextSpawnTime = IF started THEN FIRST_LOG_DELAY ELSE Null
    /\ lastSpawnTime = IF started THEN 0 - MIN_LOG_SPACING ELSE 0
    /\ spawnLoopActive = started
    /\ playerY = 0
    /\ moveInterval = IF started THEN period ELSE Null
    /\ tumbleTimerInterval = Null
    /\ difficultyInterval = DIFFICULTY_MS
    /\ countdownTimer = Null
    /\ now = 0
    /\ tickPeriod = period
    /\ hidden = FALSE
    /\ cameraEnabled = camera
    /\ debugMode = debug
    /\ isLoading = TRUE
    /\ streak = << >>
    /\ lastTick = [enter |-> FALSE, damaged |-> FALSE, stateBefore |-> "running",
                   invincible |-> FALSE, heartsBefore |-> MAX_HEARTS,
                   heartsAfter |-> MAX_HEARTS, stateAfter |-> "running"]
    /\ spawnLog = NoSpawn
    /\ tumbleActive = 0
    /\ resolved = NoResolution
    /\ tumblePaused = 0
    /\ moves = 0
    /\ clicks = 0
    /\ idle = 0
    /\ resume = NoResume
    /\ sched = [move |-> IF started THEN 1 ELSE 0, tumble |-> 0, generation |-> 0,
                moveGen |-> 0, tumbleGen |-> 0]
    /\ player = playerMount
    /\ debugJumping = FALSE
    /\ arrowUp = [held |-> FALSE, events |-> 0]

\* App.jsx line 66 and RunnerScene.jsx lines 700-703: debug mode supplies a
\* baseline of 300; otherwise the baseline is that of the calibration data
InitWith(period, camera, debug) ==
    /\ InitGame(period, camera, debug)
    /\ jumpDetection = noObservation(IF debug THEN DEBUG_BASELINE
                                     ELSE Calibrated.baselineHipHeight)
    /\ frameTimer = Null
    /\ app = appPlaying(debug)
    /\ panel = Null

\* debug mode, in which the Up Arrow key makes the player jump (lines 711-735)
Init == \E period \in TickPeriods : InitWith(period, FALSE, TRUE)

Next ==
    \/ Tick
    \/ CheckTumble
    \/ Difficulty
    \/ UpdatePlayerPosition
    \/ ResetGame

Spec == Init /\ [][Next]_vars

\* the same session with the pause controller driven by the user; the player
\* stays on the ground and the interval is delivered on time
InitPause == InitWith(TICK_MS, FALSE, FALSE)

NextPause ==
    \/ Tick
    \/ CheckTumble
    \/ Difficulty
    \/ CountdownStep
    \/ PauseClick
    \/ TabHidden
    \/ TabVisible
    \/ ReportGrounded
    \/ ResetGame

SpecPause == InitPause /\ [][NextPause]_vars

\* some timer callback (the 16 ms interval, the tumble checker, the difficulty
\* interval, the countdown timeout) is due
TimerDue == \E t \in PendingTimers(Cur) : Due(t)

\* a step that advances the clock or reschedules a timer
TimerFired ==
    \/ now' > now
    \/ <<moveInterval, tumbleTimerInterval, difficultyInterval, countdownTimer>>'
          # <<moveInterval, tumbleTimerInterval, difficultyInterval, countdownTimer>>

\* weak fairness of the timer callbacks, the host running every callback that
\* is due: TimerDue is the enabling condition of Tick \/ CheckTumble \/
\* Difficulty \/ CountdownStep written as a state predicate
TimersFire == []<>(~TimerDue) \/ []<><<TimerFired>>_vars

\* the session with the Pause/Resume button only
NextTumble ==
    \/ Tick
    \/ CheckTumble
    \/ Difficulty
    \/ CountdownStep
    \/ PauseClick

SpecTumble == InitPause /\ [][NextTumble]_vars /\ TimersFire

\* the same session with the inputs of the start-game effect changing: the
\* camera checkbox and the pose detector finishing to load
InitStart == \E camera \in BOOLEAN : InitWith(TICK_MS, camera, FALSE)

NextStart ==
    \/ Tick
    \/ CheckTumble
    \/ Difficulty
    \/ CameraToggle
    \/ PoseLoaded
    \/ ResetGame

SpecStart == InitStart /\ [][NextStart]_vars

\* the classifier with the camera on, given a baseline (as RunnerScene runs
\* it) or none (as the calibration panel runs it before the baseline is frozen)
InitJump ==
    \E baseline \in Baselines :
        /\ InitGame(TICK_MS, TRUE, FALSE)
        /\ jumpDetection = noObservation(baseline)
        /\ frameTimer = Null
        /\ app = appPlaying(FALSE)
        /\ panel = Null

NextJump ==
    \/ Difficulty
    \/ PoseLoaded
    \/ PoseObserved

SpecJump == InitJump /\ [][NextJump]_vars

\* debug mode with the animation frames of Player and the Up Arrow key
InitPlayer ==
    /\ InitGame(TICK_MS, FALSE, TRUE)
    /\ jumpDetection = noObservation(DEBUG_BASELINE)
    /\ frameTimer = FrameOffset
    /\ app = appPlaying(TRUE)
    /\ panel = Null

NextPlayer ==
    \/ Tick
    \/ CheckTumble
    \/ Difficulty
    \/ Frame
    \/ KeyDown
    \/ KeyUp
    \/ ResetGame

SpecPlayer == InitPlayer /\ [][NextPlayer]_vars

\* ------------------------------------------------------------- calibration
\* the regular results of a standing user: the hips sway between 300 and 302
RegularPose(p) ==
    IF p.jd.observed % 2 = 0 THEN Hips(300, 300, 90, 90)
    ELSE Hips(302, 302, 90, 90)

\* the other results of the standing phase: nobody in the picture, a hip with
\* a low score, a jump
Disturbances == {NoPose, Hips(250, 250, 90, 30), Hips(250, 250, 90, 90)}

\* the results of the jumping phase: standing, in the air, nobody in the picture
JumpPhasePoses == {Hips(300, 300, 90, 90), Hips(250, 250, 90, 90), NoPose}

\* lines 216-234: the Start Calibration button exists in step 0 and is enabled
\* when a pose with both hips has been detected
StartCalibration ==
    /\ app.gameState = "calibration"
    /\ panel.step = 0
    /\ panel.posesDetected
    /\ panel.starts < MaxStarts
    /\ Become([Cur EXCEPT !.panel = handleStartCalibration(panel)])

\* lines 117-132: the one-second timeout of the countdown
CalibrationCountdown ==
    /\ app.gameState = "calibration"
    /\ panel.countdown # Null
    /\ panel.countdown # 0
    /\ Become([Cur EXCEPT !.panel = countdownTimer1000(panel)])

\* usePose.js lines 65-96: the detector delivers a result to the panel
CalibrationPose ==
    /\ app.gameState = "calibration"
    /\ \/ /\ panel.step = 0
          /\ panel.jd.observed < PreObs
          /\ Become([Cur EXCEPT !.panel = posesChanged(panel, RegularPose(panel))])
       \/ /\ panel.step = 1
          /\ Become([Cur EXCEPT !.panel = posesChanged(panel, RegularPose(panel))])
       \/ /\ panel.step = 1
          /\ panel.disturbed < MaxDisturbances
          /\ \E pose \in Disturbances :
                Become([Cur EXCEPT !.panel =
                           [posesChanged(panel, pose) EXCEPT
                               !.disturbed = panel.disturbed + 1]])
       \/ /\ panel.step = 2
          /\ panel.jumpObs < MaxJumpObs
          /\ \E pose \in JumpPhasePoses :
                Become([Cur EXCEPT !.panel =
                           [posesChanged(panel, pose) EXCEPT
                               !.jumpObs = panel.jumpObs + 1]])

\* lines 264-275 and 175-185: the Complete Calibration button
CompleteCalibration ==
    /\ app.gameState = "calibration"
    /\ ~completeDisabled(panel)
    /\ Become([Cur EXCEPT !.app = onComplete(app, handleComplete(panel))])

\* App.jsx lines 58-71 and RunnerScene.jsx lines 699-703: the customization
\* panel completes and RunnerScene mounts with the calibration data
CustomizationComplete ==
    /\ app.gameState = "customization"
    /\ Become([Cur EXCEPT
                  !.app.gameState = "playing",
                  !.jumpDetection =
                      noObservation(app.calibrationData.baselineHipHeight)])

InitCalibration ==
    /\ InitGame(TICK_MS, TRUE, FALSE)
    /\ jumpDetection = noObservation(Null)
    /\ frameTimer = Null
    /\ app = appMount
    /\ panel = panelMount

NextCalibration ==
    \/ StartCalibration
    \/ CalibrationCountdown
    \/ CalibrationPose
    \/ CompleteCalibration
    \/ CustomizationComplete

SpecCalibration == InitCalibration /\ [][NextCalibration]_vars

\* ------------------------------------------------------------- claims
\* C1: a continuous overlap of one log with the player deals at most one damage
\* event, and exactly one when it begins while the player is Running with the
\* invincibility timer at zero, however many ticks it lasts and however the
\* ticks fall relative to the tumble checker.
C1_OneDamagePerOverlap ==
    \A id \in DOMAIN streak :
        /\ streak[id].dmg <= 1
        /\ streak[id].vulnerable => streak[id].dmg = 1

\* C2: no log id is in the scored set and in the hit set at once, whatever the
\* order in which the log passed the scoring depth and overlapped the player.
C2_ScoredHitDisjoint == scoredObstacles \cap hitObstacles = {}

\* C3: the score is the number of distinct ids in the scored set; the award
\* check run again for a log already scored does not raise it.
C3_ScoreIsScoredCount == score = Cardinality(scoredObstacles)

\* a scored log is still on the field two ticks past the scoring depth, so the
\* award check has run for it again
C3_AwardRepeated ==
    /\ score > 0
    /\ \E i \in 1..Len(obstacles) :
         /\ obstacles[i].id \in scoredObstacles
         /\ obstacles[i].z > SCORE_Z + 3 * BASE_LOG_SPEED

\* C4: player state and lives change only along Running/3, Tumbling/2,
\* Running/2, Tumbling/1, Running/1, GameOver/0 (and back to Running/3 by
\* resetGame): the third damage event goes from Running to GameOver directly.
C4_LivesExhaustion ==
    [][<<playerState, hearts>>' # <<playerState, hearts>> =>
          <<playerState, hearts, playerState', hearts'>> \in
              {<<"running", 3, "tumbling", 2>>, <<"tumbling", 2, "running", 2>>,
               <<"running", 2, "tumbling", 1>>, <<"tumbling", 1, "running", 1>>,
               <<"running", 1, "gameOver", 0>>, <<"gameOver", 0, "running", 3>>}]_vars

\* the third damage event has just ended the game from Running with one life
C4_ThirdDamage ==
    /\ playerState = "gameOver" /\ hearts = 0
    /\ lastTick.damaged
    /\ lastTick.stateBefore = "running" /\ lastTick.heartsBefore = 1

C6_SpawnSpacing ==
    (spawnLog.inserted /\ spawnLog.previous # Null) =>
        spawnLog.at - spawnLog.previous >= MIN_LOG_SPACING

\* C7: a log is inserted only when every live log is at least
\* MIN_LOG_DISTANCE_Z from the spawn depth; when the furthest-back live log is
\* nearer, the attempt inserts nothing.
C7_SpawnSeparation ==
    /\ spawnLog.inserted =>
         spawnLog.nearest = Null \/ spawnLog.nearest >= MIN_LOG_DISTANCE_Z
    /\ (spawnLog.nearest # Null /\ spawnLog.nearest < MIN_LOG_DISTANCE_Z) =>
         ~spawnLog.inserted

\* an attempt with a live log nearer than the separation inserted nothing,
\* after earlier attempts with live logs further away inserted theirs
C7_AttemptSkipped ==
    /\ ~spawnLog.inserted
    /\ spawnLog.nearest # Null /\ spawnLog.nearest < MIN_LOG_DISTANCE_Z
    /\ spawnLog.previous # Null

\* C8: lives stay in 0..MAX_HEARTS, a damage event lowers them by exactly one,
\* and zero lives means the player state is GameOver.
C8_LivesBounded ==
    /\ hearts \in 0..MAX_HEARTS
    /\ lastTick.damaged =>
         /\ lastTick.heartsBefore >= 1
         /\ lastTick.heartsAfter = lastTick.heartsBefore - 1
    /\ ~lastTick.damaged => lastTick.heartsAfter = lastTick.heartsBefore
    /\ hearts = 0 => playerState = "gameOver"

\* the last life has been taken
C8_LastLifeTaken ==
    /\ hearts = 0
    /\ lastTick.damaged /\ lastTick.heartsBefore = 1

\* C9: the player state changes only Running -> Tumbling, Tumbling -> Running,
\* Running -> GameOver, and GameOver -> Running, the latter only by resetGame;
\* never Tumbling -> GameOver.
C9_StateTransitions ==
    [][playerState' # playerState =>
          /\ <<playerState, playerState'>> \in
                 {<<"running", "tumbling">>, <<"tumbling", "running">>,
                  <<"running", "gameOver">>, <<"gameOver", "running">>}
          /\ playerState = "gameOver" =>
                 /\ obstacles' = << >> /\ score' = 0
                 /\ hearts' = MAX_HEARTS /\ ~gameOver']_vars

\* resetGame has just taken the player from GameOver to Running, after
\* tumbles entered and resolved and a damage event ended the game
C9_PlayAgain ==
    /\ playerState = "running" /\ hearts = MAX_HEARTS
    /\ lastTick.stateAfter = "gameOver"
    /\ resolved.active # Null

\* C10: a tick in which the player state is not Running or the invincibility
\* timer is positive applies no damage, changes neither lives nor player
\* state, even when a collision-enter edge is detected in it.
C10_NoDamageUnlessRunning ==
    (lastTick.stateBefore # "running" \/ lastTick.invincible) =>
        /\ ~lastTick.damaged
        /\ lastTick.heartsAfter = lastTick.heartsBefore
        /\ lastTick.stateAfter = lastTick.stateBefore

\* a collision-enter edge was detected in a tick of a tumble
C10_EnterWhileTumbling ==
    /\ lastTick.enter
    /\ lastTick.stateBefore = "tumbling"
    /\ ~lastTick.damaged

\* C11: the paused flag is cleared only by the countdown timeout that finds the
\* countdown at 1: the Resume request that started the countdown was made
\* exactly three one-second steps earlier, Resume clicks made meanwhile
\* neither restart nor shorten it, and the tab becoming visible does not
\* unpause.
C11_UnpauseByCountdown ==
    [][(isPaused /\ ~isPaused') =>
          /\ unpauseCountdown = 1
          /\ resume.at # Null
          /\ resume'.steps = COUNTDOWN_START
          /\ now' = resume.at + COUNTDOWN_START * COUNTDOWN_STEP_MS]_vars

\* the game was unpaused by a countdown during which Resume was clicked again
C11_UnpausedDespiteClicks ==
    /\ ~isPaused
    /\ resume.steps = COUNTDOWN_START
    /\ resume.extra > 0

C14_ResetIsComplete ==
    [][(gameOver /\ ~gameOver') =>
          /\ obstacles' = << >> /\ score' = 0 /\ hearts' = MAX_HEARTS
          /\ playerState' = "running"
          /\ hitObstacles' = {} /\ scoredObstacles' = {}
          /\ ~wasColliding' /\ invincibilityTimer' = 0
          /\ gameSpeed' = BASE_LOG_SPEED
          /\ lastSpawnTime' = now' - MIN_LOG_SPACING
          /\ nextSpawnTime' = now' + FIRST_LOG_DELAY]_vars

\* resetGame has just run on a finished run that had raised the speed
C14_JustReset ==
    /\ sched.generation > 0
    /\ ~gameOver
    /\ lastTick.stateAfter = "gameOver"
    /\ nextSpawnTime = now + FIRST_LOG_DELAY
    /\ now > DIFFICULTY_MS

C16_SingleInterval ==
    /\ sched.move = (IF moveInterval # Null THEN 1 ELSE 0)
    /\ sched.tumble = (IF tumbleTimerInterval # Null THEN 1 ELSE 0)
    /\ (gameSpeed > 0 /\ ~gameOver) =>
         LET o == [Cur EXCEPT !.moveInterval = Null]
             r == moveEffect(o, [o EXCEPT !.gameSpeed = gameSpeed + SPEED_INCREMENT,
                                          !.spawnLoopActive = TRUE])
         IN /\ r.nextSpawnTime = now + FIRST_LOG_DELAY
            /\ r.lastSpawnTime = now - MIN_LOG_SPACING
            /\ r.moveInterval # Null /\ r.sched.move = sched.move + 1

\* the tick interval has been restarted by a tumble and, during a pause of that
\* tumble, by the difficulty timer: one interval and one checker are scheduled
C16_RestartedInTumble ==
    /\ sched.move = 1 /\ sched.tumble = 1
    /\ isPaused
    /\ playerState = "tumbling"
    /\ gameSpeed > BASE_LOG_SPEED

\* C18: a log that has only moved at the base speed, 0.12 a tick from depth
\* -25, and did not hit the player is scored on its 430th movement tick, the
\* first with depth greater than 26.5, and not on an earlier one.
C18_ScoredOnTick430 ==
    \A i \in 1..Len(obstacles) :
        (/\ obstacles[i].z = SPAWN_Z + obstacles[i].ticks * BASE_LOG_SPEED
         /\ obstacles[i].id \notin hitObstacles)
        => (obstacles[i].id \in scoredObstacles <=> obstacles[i].ticks >= 430)

\* a log that the player jumped over has just made its 430th movement tick
C18_Tick430 ==
    \E i \in 1..Len(obstacles) :
        /\ obstacles[i].ticks = 430
        /\ obstacles[i].z = SPAWN_Z + 430 * BASE_LOG_SPEED
        /\ obstacles[i].id \in scoredObstacles

\* C19: from the start of a session (the speed is at least the base speed) to
\* its game over the game speed never decreases: it changes only by the
\* increment of the difficulty timer, up to 1.5 times the base speed, and no
\* camera toggle, end of the detector's loading, pause or tumble lowers it.
C19_SpeedMonotone ==
    [][(~gameOver /\ ~gameOver' /\ gameSpeed >= BASE_LOG_SPEED) =>
          /\ gameSpeed' >= gameSpeed
          /\ gameSpeed' # gameSpeed =>
                gameSpeed' = Min(gameSpeed + SPEED_INCREMENT,
                                 (BASE_LOG_SPEED * 3) \div 2)]_vars

\* C17: after an accepted observation the classifier reports a jump exactly
\* when a baseline is supplied, the smoothed hip height is below the baseline
\* minus 45 pixels and the baseline exceeds it by at least 15 pixels; with a
\* baseline of 300 a smoothed height of 250 is a jump and 290 is none; without
\* a baseline nothing is a jump.
C17_JumpClassification ==
    LET jd == jumpDetection
        smoothed == jd.smoothedHipHeight
        baseline == jd.baselineHipHeight
    IN /\ jd.accepted =>
            (jd.isJumping <=>
                /\ baseline # Null
                /\ smoothed < baseline - 45 * PIXEL
                /\ baseline - smoothed >= 15 * PIXEL)
       /\ (jd.accepted /\ baseline = 300 * PIXEL /\ smoothed = 250 * PIXEL)
             => jd.isJumping
       /\ (jd.accepted /\ baseline = 300 * PIXEL /\ smoothed = 290 * PIXEL)
             => ~jd.isJumping
       /\ baseline = Null => ~jd.isJumping

C17_JumpAt250 ==
    /\ jumpDetection.accepted
    /\ jumpDetection.observed = MaxObs
    /\ jumpDetection.baselineHipHeight = 300 * PIXEL
    /\ jumpDetection.smoothedHipHeight = 250 * PIXEL
    /\ jumpDetection.isJumping

C21_ActiveSpawnGap ==
    (spawnLog.inserted /\ spawnLog.previous # Null) =>
        spawnLog.activeGap >= MIN_LOG_SPACING

\* C22: a tick that finds a spawn due while the live log nearest to the spawn
\* depth is closer than the minimum separation inserts no log and leaves
\* lastSpawnTime and nextSpawnTime unchanged, so that the spawn is tried again
\* on the next tick.
C22_SkippedSpawnRetried ==
    [][(/\ spawnLog'.attempts = spawnLog.attempts + 1
        /\ spawnLog'.nearest # Null
        /\ spawnLog'.nearest < MIN_LOG_DISTANCE_Z) =>
          /\ Len(obstacles') <= Len(obstacles)
          /\ lastSpawnTime' = lastSpawnTime
          /\ nextSpawnTime' = nextSpawnTime]_vars

\* C23: a restart (Play Again, or the tab shown again during a session) sets
\* lastSpawnTime = now - MIN_LOG_SPACING and nextSpawnTime = now +
\* FIRST_LOG_DELAY, and the first log after it is inserted once FIRST_LOG_DELAY
\* of play has passed: not on the first tick of play and not a full spacing
\* interval later.
C23_FirstSpawnAfterRestart ==
    /\ [][(spawnLog'.restart = 0 /\ spawnLog.restart # 0) =>
             /\ lastSpawnTime' = now' - MIN_LOG_SPACING
             /\ nextSpawnTime' = now' + FIRST_LOG_DELAY]_vars
    /\ [](spawnLog.first # Null =>
             /\ spawnLog.first >= FIRST_LOG_DELAY
             /\ spawnLog.first < MIN_LOG_SPACING)

\* C24: the invincibility timer is never negative, rises only to
\* INVINCIBILITY_MS and only in a tick that deals damage, does not change while
\* the game is paused, and paused time is never subtracted from it: during a
\* tumble it is at least INVINCIBILITY_MS minus the unpaused time of the
\* tumble.
C24_InvincibilityFrozen ==
    /\ [][/\ invincibilityTimer' > invincibilityTimer =>
                /\ invincibilityTimer' = INVINCIBILITY_MS
                /\ lastTick'.damaged
                /\ hearts' = hearts - 1
          /\ isPaused => invincibilityTimer' = invincibilityTimer]_vars
    /\ [](/\ invincibilityTimer >= 0
          /\ playerState = "tumbling" =>
                invincibilityTimer >= INVINCIBILITY_MS - tumbleActive)

C24_ResumedInvincible ==
    /\ ~isPaused
    /\ playerState = "tumbling"
    /\ tumblePaused >= COUNTDOWN_START * COUNTDOWN_STEP_MS
    /\ invincibilityTimer > 0
    /\ invincibilityTimer < INVINCIBILITY_MS

\* C25: an unpaused Tumbling state is followed by Running unless the game is
\* paused first (as long as the timers keep firing); the state leaves
\* Tumbling only for Running, after at least TUMBLE_DURATION of unpaused time,
\* with wasColliding cleared and the hit set unchanged.
C25_TumbleEnds ==
    /\ [][(playerState = "tumbling" /\ playerState' # "tumbling") =>
             /\ playerState' = "running"
             /\ ~wasColliding'
             /\ hitObstacles' = hitObstacles
             /\ resolved'.active >= TUMBLE_DURATION]_vars
    /\ (playerState = "tumbling" /\ ~isPaused
           /\ now <= MaxTime - 2 * TUMBLE_DURATION)
          ~> (playerState = "running" \/ isPaused)

C25_DamagedAfterTumble ==
    /\ resolved.active # Null
    /\ resolved.paused > 0
    /\ lastTick.damaged
    /\ lastTick.stateBefore = "running"
    /\ hearts = MAX_HEARTS - 2
    /\ Cardinality(hitObstacles) >= 2

\* C26: a frame applies the jump impulse (the velocity becomes JUMP_FORCE less
\* one step of gravity, grounded becomes false) only when the jump boolean it
\* was handed is true, prevJumping is false, the player is grounded at ground
\* level and the state is Running or Tumbling; the height is never below ground
\* level, and at ground level the velocity is 0 and the player is grounded.
C26_JumpImpulse ==
    /\ [][(/\ player'.frames # player.frames
           /\ player'.velocityY = JUMP_FORCE - GRAVITY_STEP) =>
             /\ player'.handed
             /\ ~player.prevJumping
             /\ player.isGrounded
             /\ player.positionY = GROUND_Y
             /\ ~player'.isGrounded
             /\ playerState = "running" \/ playerState = "tumbling"]_vars
    /\ [](/\ player.positionY >= GROUND_Y
          /\ player.positionY = GROUND_Y =>
                (player.velocityY = 0 /\ player.isGrounded))

C26_JumpedInTumble ==
    /\ playerState = "tumbling"
    /\ player.velocityY = JUMP_FORCE - GRAVITY_STEP
    /\ player.positionY = GROUND_Y + JUMP_FORCE - GRAVITY_STEP
    /\ ~player.isGrounded
    /\ player.handed

\* C27: a frame applies no impulse when the jump boolean was already true in
\* the frame before it (held across a landing included) or when the player is
\* in the air: an edge that arrives in the air is consumed, not kept for the
\* landing.
C27_OneJumpPerEdge ==
    [][(/\ player'.frames # player.frames
        /\ \/ player.handed /\ player'.handed
           \/ ~player.isGrounded) =>
          player'.velocityY # JUMP_FORCE - GRAVITY_STEP]_vars

C27_LandedWhileHeld ==
    /\ arrowUp.events = MaxKeys
    /\ arrowUp.held
    /\ debugJumping
    /\ now > KeyTo + 50 * FRAME_MS
    /\ now < KeyAgain
    /\ playerState = "running"
    /\ player.handed
    /\ player.prevJumping
    /\ player.isGrounded
    /\ player.positionY = GROUND_Y

\* C28: a tick taken while the game is not paused moves every live log, the
\* one it has just spawned included, towards the player by the same amount: the
\* game speed when the player state is Running, 0.4 times the game speed when
\* it is Tumbling; a log that is gone after the tick has moved past the despawn
\* depth by that amount.  The player's depth is 26 throughout.
C28_TickAdvance ==
    /\ [][(Tick /\ ~isPaused) =>
            \E d \in 0..gameSpeed :
               /\ playerState = "running" => d = gameSpeed
               /\ playerState = "tumbling" => 10 * d = 4 * gameSpeed
               /\ playerState \in {"running", "tumbling"}
               /\ \A i \in 1..Len(obstacles) :
                    \/ \E j \in 1..Len(obstacles') :
                          /\ obstacles'[j].id = obstacles[i].id
                          /\ obstacles'[j].z = obstacles[i].z + d
                    \/ /\ \A j \in 1..Len(obstacles') :
                             obstacles'[j].id # obstacles[i].id
                       /\ obstacles[i].z + d > PLAYER_Z + LOG_DESPAWN_DISTANCE
               /\ \A j \in 1..Len(obstacles') :
                    (\A i \in 1..Len(obstacles) :
                        obstacles[i].id # obstacles'[j].id)
                    => obstacles'[j].z = SPAWN_Z + d]_vars
    /\ [](player.positionZ = 26 * 10000)

\* a tick has just moved two logs during a tumble, after the difficulty timer
\* raised the speed, while the player was in the air
C28_SlowedAtRaisedSpeed ==
    /\ playerState = "tumbling"
    /\ lastTick.stateBefore = "tumbling"
    /\ gameSpeed > BASE_LOG_SPEED
    /\ now = moveInterval - tickPeriod
    /\ Len(obstacles) >= 2
    /\ \A i \in 1..Len(obstacles) : obstacles[i].ticks > 0
    /\ player.positionY > GROUND_Y

\* C29: every live log has a depth from -25 to 41.  A tick that moves a log to
\* a depth greater than 41 (the player's depth plus 15) removes it, and a log
\* leaves the collection only that way or by resetGame.
C29_DespawnDepth ==
    /\ [](\A i \in 1..Len(obstacles) :
             obstacles[i].z >= -25 * 10000 /\ obstacles[i].z <= 41 * 10000)
    /\ [][LET d == IF playerState = "tumbling"
                   THEN (gameSpeed * 4) \div 10 ELSE gameSpeed
              gone(i) == \A j \in 1..Len(obstacles') :
                            obstacles'[j].id # obstacles[i].id
          IN \A i \in 1..Len(obstacles) :
                /\ gone(i) =>
                      \/ gameOver /\ ~gameOver' /\ obstacles' = << >>
                      \/ /\ Tick /\ ~isPaused
                         /\ obstacles[i].z + d > (26 + 15) * 10000
                /\ (Tick /\ ~isPaused /\ obstacles[i].z + d > (26 + 15) * 10000)
                      => gone(i)]_vars

\* a tick has removed a log that the first session scored, and younger logs
\* are still on the field
C29_LogDespawned ==
    /\ sched.generation = 0
    /\ now = moveInterval - tickPeriod
    /\ obstacles # << >>
    /\ \E id \in scoredObstacles :
          /\ \A i \in 1..Len(obstacles) : obstacles[i].id # id
          /\ \A i \in 1..Len(obstacles) :
                obstacles[i].z + gameSpeed <= (26 + 15) * 10000

\* C30: a result of the detector in which a hip keypoint is missing or has a
\* score below 0.4, or in which the two hips differ in height by more than 50,
\* leaves the smoothed hip height, the reported hip height, the threshold and
\* the jumping output as the previous result left them.
C30_RejectedObservation ==
    [][(/\ jumpDetection'.observed = jumpDetection.observed + 1
        /\ jumpDetection'.poses.present
        /\ \/ jumpDetection'.poses.leftScore = 0
           \/ jumpDetection'.poses.rightScore = 0
           \/ jumpDetection'.poses.leftScore < 40
           \/ jumpDetection'.poses.rightScore < 40
           \/ jumpDetection'.poses.leftY - jumpDetection'.poses.rightY > 50 * PIXEL
           \/ jumpDetection'.poses.rightY - jumpDetection'.poses.leftY > 50 * PIXEL)
       => /\ jumpDetection'.smoothedHipHeight = jumpDetection.smoothedHipHeight
          /\ jumpDetection'.currentHipHeight = jumpDetection.currentHipHeight
          /\ jumpDetection'.jumpThreshold = jumpDetection.jumpThreshold
          /\ jumpDetection'.isJumping = jumpDetection.isJumping]_vars

\* the classifier reports a jump at a smoothed hip height of 250 and the last
\* result, with hips 60 apart in height, was rejected
C30_RejectedWhileJumping ==
    /\ jumpDetection.poses = Hips(200, 260, 90, 90)
    /\ ~jumpDetection.accepted
    /\ jumpDetection.observed >= 2
    /\ jumpDetection.smoothedHipHeight = 250 * PIXEL
    /\ jumpDetection.isJumping

\* C31: a result of the detector without a pose clears the smoothed and the
\* reported hip height and sets the jumping output to false; the first accepted
\* result after it makes the smoothed hip height the average of its own two
\* hips.
C31_GapClearsSmoothing ==
    [][jumpDetection'.observed = jumpDetection.observed + 1 =>
          /\ ~jumpDetection'.poses.present =>
                /\ jumpDetection'.smoothedHipHeight = Null
                /\ jumpDetection'.currentHipHeight = Null
                /\ ~jumpDetection'.isJumping
          /\ (~jumpDetection.poses.present /\ jumpDetection'.accepted) =>
                /\ 2 * jumpDetection'.smoothedHipHeight
                     = jumpDetection'.poses.leftY + jumpDetection'.poses.rightY
                /\ jumpDetection'.currentHipHeight
                     = jumpDetection'.smoothedHipHeight]_vars

\* the detector has lost the pose after a result that the classifier accepted
\* (the threshold of the baseline is set, which only an accepted result does):
\* no smoothed height is left and the output is false
C31_ClearedAfterAccepted ==
    /\ jumpDetection.observed >= 2
    /\ jumpDetection.poses = NoPose
    /\ jumpDetection.jumpThreshold # Null
    /\ jumpDetection.smoothedHipHeight = Null
    /\ jumpDetection.currentHipHeight = Null
    /\ ~jumpDetection.isJumping

\* C32: the calibration step only goes from 0 (awaiting start) to 1 (standing)
\* to 2 (jumping), one at a time and never back.  The baseline is unset until
\* the step becomes 2 and does not change afterwards; the step becomes 2 only
\* on a buffer of 15 to 20 samples (the previous buffer plus the new sample,
\* less the oldest one beyond 20) whose standard deviation is below 5 pixels,
\* and the baseline is then the mean of that buffer.  The buffer never holds
\* more than 20 samples.
C32_CalibrationPhases ==
    /\ [][/\ panel'.step = panel.step \/ panel'.step = panel.step + 1
          /\ panel.baselineHipHeight # Null =>
                panel'.baselineHipHeight = panel.baselineHipHeight
          /\ (panel.step = 1 /\ panel'.step = 2) =>
                LET m == panel'.measured
                    n == Len(m)
                    d == Deviations(m, m[1])
                IN /\ n >= 15 /\ n <= 20
                   /\ SubSeq(m, 1, n - 1) = panel.baselineSamples
                      \/ /\ Len(panel.baselineSamples) = 20
                         /\ SubSeq(m, 1, n - 1) = Tail(panel.baselineSamples)
                   /\ n * SumOfSquares(d) - Sum(d) * Sum(d) < 25 * 100 * n * n
                   /\ panel'.baselineHipHeight = Sum(m) \div n
          /\ (panel.step = 1 /\ panel'.step = 1
                 /\ Len(panel.baselineSamples) = 20
                 /\ panel'.baselineSamples # panel.baselineSamples) =>
                SubSeq(panel'.baselineSamples, 1, 19)
                   = Tail(panel.baselineSamples)]_vars
    /\ [](/\ panel.step \in {0, 1, 2}
          /\ Len(panel.baselineSamples) <= 20
          /\ panel.baselineHipHeight # Null <=> panel.step = 2)

\* the baseline has been frozen after a jump in the standing phase kept the
\* buffer unstable until the buffer had dropped samples
C32_FrozenAfterInstability ==
    /\ panel.step = 2
    /\ panel.baselineHipHeight # Null
    /\ panel.dropped > 0
    /\ panel.disturbed = 1
    /\ Len(panel.measured) = 20

C39_BaselineIsNumber ==
    /\ app.gameState # "calibration" =>
          /\ app.calibrationData # NoCalibration
          /\ app.calibrationData.baselineHipHeight # Null
          /\ app.calibrationData.baselineHipHeight > 0
          /\ app.calibrationData.baselineHipHeight = panel.baselineHipHeight
          /\ panel.step = 2
    /\ app.gameState = "playing" =>
          jumpDetection.baselineHipHeight = app.calibrationData.baselineHipHeight

\* RunnerScene has been mounted after a calibration
C39_PlayingAfterCalibration ==
    /\ app.gameState = "playing"
    /\ panel.step = 2
    /\ Len(panel.jumpHeights) >= 1
    /\ jumpDetection.baselineHipHeight = panel.baselineHipHeight

C35_LogsApart ==
    /\ \A i, j \in 1..Len(obstacles) :
          i # j => \/ obstacles[i].z - obstacles[j].z >= 8 * 10000
                   \/ obstacles[j].z - obstacles[i].z >= 8 * 10000
    /\ Cardinality({i \in 1..Len(obstacles) :
                       obstacles[i].z > 245000 /\ obstacles[i].z < 270000}) <= 1

\* a log is inside the collision window and the log behind it is less than
\* 10 units away
C35_CloseLogs ==
    \E i, j \in 1..Len(obstacles) :
        /\ obstacles[i].z > Z_OVERLAP_MIN /\ obstacles[i].z < Z_OVERLAP_MAX
        /\ obstacles[j].z < obstacles[i].z
        /\ obstacles[i].z - obstacles[j].z < 10 * 10000

\* C36: every live log deeper than 26.5 is in the scored set or in the hit
\* set, the score is the number of scored logs, and a log that a tick removes
\* is in one of the two sets after that tick.
C36_PassedLogsAccounted ==
    /\ [](/\ \A i \in 1..Len(obstacles) :
                obstacles[i].z > 265000 =>
                    obstacles[i].id \in scoredObstacles \cup hitObstacles
          /\ score = Cardinality(scoredObstacles))
    /\ [][\A i \in 1..Len(obstacles) :
             (/\ ~(gameOver /\ ~gameOver')
              /\ \A j \in 1..Len(obstacles') :
                     obstacles'[j].id # obstacles[i].id)
             => obstacles[i].id \in scoredObstacles' \cup hitObstacles']_vars

\* a log that hit the player has been despawned without a point, and a log
\* the player jumped over is past the scoring depth with its point
C36_DespawnedDisqualified ==
    /\ sched.generation = 0
    /\ \E id \in hitObstacles \ scoredObstacles :
          \A i \in 1..Len(obstacles) : obstacles[i].id # id
    /\ \E i \in 1..Len(obstacles) :
          /\ obstacles[i].z > SCORE_Z
          /\ obstacles[i].id \in scoredObstacles \ hitObstacles

\* C37: the gameOver flag is true exactly when the player state is GameOver,
\* and then no life is left and no tick is scheduled; from a game-over state
\* no step other than resetGame changes the logs, the score, the lives or the
\* scored and hit sets, and only resetGame ends the game-over state.
C37_GameOverFrozen ==
    /\ [](/\ gameOver <=> playerState = "gameOver"
          /\ playerState = "gameOver" => hearts = 0
          /\ gameOver => moveInterval = Null)
    /\ [][gameOver =>
            \/ /\ gameOver'
               /\ UNCHANGED <<obstacles, score, hearts,
                              scoredObstacles, hitObstacles>>
            \/ /\ ~gameOver'
               /\ sched'.generation = sched.generation + 1
               /\ obstacles' = << >> /\ score' = 0
               /\ hearts' = MAX_HEARTS]_vars

\* the game has been over for a while, with logs on the track and a score
C37_OverWithLogs ==
    /\ gameOver
    /\ playerState = "gameOver"
    /\ Len(obstacles) > 0
    /\ score > 0
    /\ now > lastInvincibilityUpdate

\* C38: in every state the game speed is 0 or lies between the base speed and
\* the cap of one and a half times the base speed, and the tick interval is
\* scheduled only once the game start has initialised spawn tracking.
C38_SpeedRange ==
    /\ \/ gameSpeed = 0
       \/ /\ gameSpeed >= BASE_LOG_SPEED
          /\ gameSpeed <= (BASE_LOG_SPEED * 3) \div 2
    /\ moveInterval # Null => nextSpawnTime # Null

\* C40: once spawn tracking is initialised the next spawn time is at least
\* MIN_LOG_SPACING after the last spawn time in every state, so a tick that has
\* reached the next spawn time passes the spacing check and never takes the
\* branch that reschedules the spawn to lastSpawnTime + MIN_LOG_SPACING.
C40_SpacingAlwaysMet ==
    /\ [](nextSpawnTime # Null =>
              nextSpawnTime >= lastSpawnTime + MIN_LOG_SPACING)
    /\ [][(/\ Tick
           /\ nextSpawnTime # Null
           /\ now' >= nextSpawnTime)
          => now' - lastSpawnTime >= MIN_LOG_SPACING]_vars

\* a spawn attempt has just been made in a restarted session, not its first,
\* and drew the least gap
C40_AttemptAfterRestart ==
    /\ sched.generation > 0
    /\ spawnLog.attempts > 1
    /\ lastSpawnTime = now
    /\ nextSpawnTime = lastSpawnTime + MIN_LOG_SPACING

====
